---- MODULE Spec2Model ----
(***************************************************************************)
(* Model of the metadata-driven synthesizer of package builders            *)
(* (dragonfly.go, caller.go): the encryption hook registry, the operator   *)
(* table, and the filter / scan / write synthesis over field descriptors.  *)
(*                                                                         *)
(* Go strings are sequences of one-character strings, so concatenation,    *)
(* strconv.Itoa and strings.Index are computed and not assumed.            *)
(***************************************************************************)
EXTENDS Integers, Sequences, FiniteSets, TLC

VARIABLES
    makeEncryptPasswordCallCustom, \* the single-slot encryption hook
    registeredGenerators,          \* names registered in the generator table
    regLog,                        \* the RegisterSqlFieldEncryptFunction calls made so far
    last,                          \* the synthesis call at hand: function, input, outcome
    registering                    \* registration calls running concurrently: argument, position

vars == <<makeEncryptPasswordCallCustom, registeredGenerators, regLog, last, registering>>

(***************************************************************************)
(* Bounds                                                                  *)
(***************************************************************************)
MaxRegs == 4        \* RegisterSqlFieldEncryptFunction calls in one run
MaxFields == 3      \* length of a top-level field list
MaxGroupLen == 2    \* children of a Group
MaxNames == 2       \* names declared by one leaf in the scan path
MaxArgs == 3        \* arguments of one call built through a descriptor
MaxOperands == 3    \* operands of one Or
MaxGoroutines == 3  \* RegisterSqlFieldEncryptFunction calls running concurrently

(***************************************************************************)
(* Values                                                                  *)
(***************************************************************************)
Nil == "nil"
EncryptFns == {"encA", "encB", "encC"}
GeneratorNames == {"now", "uuid"}

Panic(msg) == [status |-> "panic", msg |-> msg]
IsPanic(r) == r.status = "panic"

(***************************************************************************)
(* strings                                                                 *)
(***************************************************************************)
Digits == <<"0", "1", "2", "3", "4", "5", "6", "7", "8", "9">>

RECURSIVE Itoa(_)
Itoa(n) ==
    IF n < 10 THEN <<Digits[n + 1]>>
    ELSE Itoa(n \div 10) \o <<Digits[(n % 10) + 1]>>

\* strings.Index(s, sub) < 0 is ~Contains(s, sub)
Contains(s, sub) ==
    \E i \in 0..(Len(s) - Len(sub)) :
        \A j \in 1..Len(sub) : s[i + j] = sub[j]

(***************************************************************************)
(* The encryption hook and the generator registry                          *)
(***************************************************************************)
RegisterSqlFieldEncryptFunction_overwrite(encryptFn) ==
    /\ Len(regLog) < MaxRegs
    /\ makeEncryptPasswordCallCustom' = encryptFn
    /\ regLog' = Append(regLog, [fn |-> encryptFn, outcome |-> "ok"])
    /\ UNCHANGED <<registeredGenerators, last, registering>>

RegisterSqlFieldEncryptFunction(encryptFn) ==
    /\ Len(regLog) < MaxRegs
    /\ IF makeEncryptPasswordCallCustom = Nil
       THEN /\ makeEncryptPasswordCallCustom' = encryptFn
            /\ regLog' = Append(regLog, [fn |-> encryptFn, outcome |-> "ok"])
       ELSE /\ UNCHANGED makeEncryptPasswordCallCustom
            \* panic("custom function already registered")
            /\ regLog' = Append(regLog, [fn |-> encryptFn, outcome |-> "panic"])
    /\ UNCHANGED <<registeredGenerators, last, registering>>

AddNewGenerator(name) ==
    /\ registeredGenerators' = registeredGenerators \cup {name}
    /\ UNCHANGED <<makeEncryptPasswordCallCustom, regLog, last, registering>>

\* RegisterSqlFieldEncryptFunction called from several goroutines.  The function
\* holds no lock: the comparison with nil (one read of the hook) and the
\* assignment (one write) are two steps, and steps of other calls may fall between.
RegisterCheck(g) ==
    /\ registering[g].pc = "called"
    /\ IF makeEncryptPasswordCallCustom = Nil
       THEN /\ registering' = [registering EXCEPT ![g].pc = "checked"]
            /\ UNCHANGED regLog
       ELSE \* panic("custom function already registered")
            /\ registering' = [registering EXCEPT ![g].pc = "panicked"]
            /\ regLog' = Append(regLog, [fn |-> registering[g].fn, outcome |-> "panic"])
    /\ UNCHANGED <<makeEncryptPasswordCallCustom, registeredGenerators, last>>

RegisterStore_ifStillNil(g) ==
    /\ registering[g].pc = "checked"
    /\ makeEncryptPasswordCallCustom' =
           IF makeEncryptPasswordCallCustom = Nil THEN registering[g].fn
           ELSE makeEncryptPasswordCallCustom
    /\ registering' = [registering EXCEPT ![g].pc = "returned"]
    /\ regLog' = Append(regLog, [fn |-> registering[g].fn, outcome |-> "ok"])
    /\ UNCHANGED <<registeredGenerators, last>>

RegisterStore(g) ==
    /\ registering[g].pc = "checked"
    /\ makeEncryptPasswordCallCustom' = registering[g].fn
    /\ registering' = [registering EXCEPT ![g].pc = "returned"]
    /\ regLog' = Append(regLog, [fn |-> registering[g].fn, outcome |-> "ok"])
    /\ UNCHANGED <<registeredGenerators, last>>

(***************************************************************************)
(* Comparison operators                                                    *)
(***************************************************************************)
CompareEqual == "equal"
CompareNotEqual == "notEqual"
CompareLike == "like"
CompareNotLike == "notLike"
CompareIn == "in"
CompareNotIn == "notIn"
CompareGreatThan == "great"
CompareLessThan == "less"
CompareNotGreat == "notGreat"
CompareNotLess == "notLess"
CompareStarts == "starts"
CompareIsNull == "isNull"

compareOperators ==
    <<CompareEqual, CompareNotEqual, CompareLike, CompareNotLike, CompareIn,
      CompareNotIn, CompareGreatThan, CompareLessThan, CompareNotGreat,
      CompareNotLess, CompareStarts, CompareIsNull>>

multiCompareOperators == <<CompareIn, CompareNotIn>>

\* operators a descriptor may carry: the fixed set, the empty one, unknown ones
OperatorInputs ==
    {compareOperators[i] : i \in 1..Len(compareOperators)} \cup {"", "between", "Equal"}

Check_lenient(c) ==
    LET c1 == IF c = "" THEN CompareEqual ELSE c
    IN  [status |-> "ok", c |-> c1]

\* the receiver is a pointer: c of the result is the operator after the call
Check(c) ==
    LET c1 == IF c = "" THEN CompareEqual ELSE c
    IN  IF \E i \in 1..Len(compareOperators) : compareOperators[i] = c1
        THEN [status |-> "ok", c |-> c1]
        ELSE [status |-> "panic", c |-> c1, msg |-> "unknown compare operator"]

IsMult(c) == \E i \in 1..Len(multiCompareOperators) : multiCompareOperators[i] = c

opRegular(operator) == [shape |-> "opRegular", operator |-> operator]
opInline(operator) == [shape |-> "opInline", operator |-> operator]

knownOperators_withoutIsNull ==
    [c \in {CompareEqual, CompareNotEqual, CompareLike, CompareNotLike, CompareIn,
            CompareNotIn, CompareGreatThan, CompareLessThan, CompareNotGreat,
            CompareNotLess, CompareStarts} |->
        opRegular(<<"%", "s", " ", "=", " ", "%", "s">>)]

knownOperators ==
    (CompareEqual :> opRegular(<<"%", "s", " ", "=", " ", "%", "s">>)) @@
    (CompareNotEqual :> opRegular(<<"%", " ", "!", "=", " ", "%", "s">>)) @@
    (CompareLike :> opRegular(<<"%", "s", " ", "l", "i", "k", "e", " ", "'", "%", "%",
                                "'", "|", "|", "%", "s", "|", "|", "'", "%", "%", "'">>)) @@
    (CompareNotLike :> opRegular(<<"%", "s", " ", "n", "o", "t", " ", "l", "i", "k", "e",
                                   " ", "'", "%", "%", "'", "|", "|", "%", "s", "|", "|",
                                   "'", "%", "%", "'">>)) @@
    (CompareIn :> opRegular(<<"%", "s", " ", "i", "n", " ", "(", "%", "s", ")">>)) @@
    (CompareNotIn :> opRegular(<<"%", "s", " ", "n", "o", "t", " ", "i", "n", " ", "(",
                                 "%", "s", ")">>)) @@
    (CompareGreatThan :> opRegular(<<"%", "s", " ", ">", " ", "%", "s">>)) @@
    (CompareLessThan :> opRegular(<<"%", "s", " ", "<", " ", "%", "s">>)) @@
    (CompareNotGreat :> opRegular(<<"%", "s", " ", "<", "=", " ", "%", "s">>)) @@
    (CompareNotLess :> opRegular(<<"%", "s", " ", ">", "=", " ", "%", "s">>)) @@
    (CompareStarts :> opRegular(<<"%", "s", " ", "s", "t", "a", "r", "t", "s", " ", "w",
                                  "i", "t", "h", " ", "%", "s">>)) @@
    (CompareIsNull :> opInline(<<"%", "s", " ", "i", "s", " ", "%", "s">>))

\* the receiver is a value: Check normalises the callee's copy only
getBuilder(c) ==
    LET r == Check(c)
    IN  IF IsPanic(r) THEN Panic(r.msg)
        ELSE IF r.c \in DOMAIN knownOperators
             THEN [status |-> "ok", template |-> knownOperators[r.c]]
             ELSE Panic("cannot find template for operator")

(***************************************************************************)
(* Syntax-tree nodes (common.go, stmt.go, caller.go)                       *)
(***************************************************************************)
Ident(name) == [e |-> "Ident", Name |-> name]
NilExpr == Ident(<<"n", "i", "l">>)
Selector(x, object) == [e |-> "SelectorExpr", X |-> x, Sel |-> object]
SimpleSelector(pack, object) == Selector(Ident(pack), object)
Star(expr) == [e |-> "StarExpr", X |-> expr]
Ref(expr) == [e |-> "UnaryExpr", Op |-> "&", X |-> expr]
Not(expr) == [e |-> "UnaryExpr", Op |-> "!", X |-> expr]
Binary(left, right, tok) == [e |-> "BinaryExpr", X |-> left, Op |-> tok, Y |-> right]
NotEqual(left, right) == Binary(left, right, "!=")
NotNil(expr) == Binary(expr, NilExpr, "!=")
StringConstant(str) == [e |-> "BasicLit", Kind |-> "STRING", Value |-> str]
IntegerConstant(n) == [e |-> "BasicLit", Kind |-> "INT", Value |-> Itoa(n)]
ArrayType(expr) == [e |-> "ArrayType", Elt |-> expr]
StringType == Ident(<<"s", "t", "r", "i", "n", "g">>)

RECURSIVE Add(_)
Add(exps) ==
    IF Len(exps) = 1 THEN exps[1]
    ELSE Binary(Add(SubSeq(exps, 1, Len(exps) - 1)), exps[Len(exps)], "+")

RECURSIVE And(_, _)
And(left, expr) ==
    IF Len(expr) = 0 THEN left
    ELSE Binary(left, And(expr[1], Tail(expr)), "&&")

Or(left, expr) ==
    IF Len(expr) = 0 THEN left
    ELSE Binary(left, And(expr[1], Tail(expr)), "||")

If(condition, body) == [s |-> "IfStmt", Cond |-> condition, Body |-> body]
Var(specs) == [s |-> "DeclStmt", Tok |-> "var", Specs |-> specs]
VariableValue(name, val) == [Names |-> <<name>>, Values |-> <<val>>]
Assign(varNames, rhs) == [s |-> "AssignStmt", Lhs |-> varNames, Tok |-> "=", Rhs |-> rhs]

makeFunc(f, m, ext) ==
    [FunctionName |-> f, MinimumNumberOfArguments |-> m, ExtensibleNumberOfArguments |-> ext]
MakeFn == makeFunc(Ident(<<"m", "a", "k", "e">>), 1, TRUE)
AppendFn == makeFunc(Ident(<<"a", "p", "p", "e", "n", "d">>), 1, TRUE)
StringsJoinFn == makeFunc(SimpleSelector(<<"s", "t", "r", "i", "n", "g", "s">>, <<"J", "o", "i", "n">>), 2, FALSE)

checkArgsCount_noMaximum(fn, a) ==
    IF fn.MinimumNumberOfArguments > a
    THEN Panic("the minimum number of arguments has not been reached")
    ELSE [status |-> "ok"]

\* "ok" when a call of fn with a arguments is built, the panic otherwise
checkArgsCount(fn, a) ==
    IF fn.MinimumNumberOfArguments > a
    THEN Panic("the minimum number of arguments has not been reached")
    ELSE IF ~fn.ExtensibleNumberOfArguments /\ a > fn.MinimumNumberOfArguments
         THEN Panic("the maximum number of arguments exceeded")
         ELSE [status |-> "ok"]

Call(fn, args) ==
    IF IsPanic(checkArgsCount(fn, Len(args))) THEN checkArgsCount(fn, Len(args))
    ELSE [e |-> "CallExpr", Fun |-> fn.FunctionName, Args |-> args, Ellipsis |-> FALSE]

(***************************************************************************)
(* Field descriptors                                                       *)
(***************************************************************************)
SourceSqlColumn(name) == [kind |-> "SourceSqlColumn", ColumnNames |-> <<name>>]
SourceSqlExpression(expr) == [kind |-> "SourceSqlExpression", ColumnNames |-> <<expr>>]
SourceSqlSomeColumns(names) == [kind |-> "SourceSqlSomeColumns", ColumnNames |-> names]

RECURSIVE Join(_, _)
Join(strs, sep) ==
    IF Len(strs) = 0 THEN <<>>
    ELSE IF Len(strs) = 1 THEN strs[1]
    ELSE strs[1] \o sep \o Join(Tail(strs), sep)

sqlExpr(src) ==
    IF src.kind = "SourceSqlSomeColumns" THEN Join(src.ColumnNames, <<",", " ">>)
    ELSE src.ColumnNames[1]

\* ast.Field of a leaf: its names and its type
AstField(names, type) == [Names |-> names, Type |-> type]
IsStarExpr(type) == type.e = "StarExpr"

\* Tag is the value list of the sql tag of the field (tags[TagTypeSQL])
MetaField(names, type, src, op, constant) ==
    [kind |-> "MetaField", Field |-> AstField(names, type), Tag |-> <<sqlExpr(src)>>,
     SourceSql |-> src, CaseInsensitive |-> FALSE, IsMaybeType |-> FALSE,
     IsCustomType |-> FALSE, CompareOperator |-> op, Constant |-> constant]
WriteField(names, type, src, tag, maybe, custom) ==
    [kind |-> "MetaField", Field |-> AstField(names, type), Tag |-> tag,
     SourceSql |-> src, CaseInsensitive |-> FALSE, IsMaybeType |-> maybe,
     IsCustomType |-> custom, CompareOperator |-> "", Constant |-> <<>>]
MetaFields(items) == [kind |-> "MetaFields", items |-> items]

FindBuilderOptions ==
    [appendValueFormat |-> <<"%", "s", " ", "=", " ", "$", "%", "%", "d">>,
     variableForColumnNames |-> Nil,
     variableForColumnValues |-> <<"a", "r", "g", "s">>,
     variableForColumnExpr |-> <<"f", "i", "l", "t", "e", "r", "s">>]

InsertBuilderOptions ==
    [appendValueFormat |-> <<"/", "*", " ", "%", "s", " ", "*", "/", " ", "$", "%", "%", "d">>,
     variableForColumnNames |-> <<"f", "i", "e", "l", "d", "s">>,
     variableForColumnValues |-> <<"a", "r", "g", "s">>,
     variableForColumnExpr |-> <<"v", "a", "l", "u", "e", "s">>]

(***************************************************************************)
(* Operator Template Engine: the statements one operator emits.  A         *)
(* fragment statement appends the formatted template to the fragment       *)
(* accumulator; an argument statement appends the value to the argument    *)
(* accumulator.                                                            *)
(***************************************************************************)
AppendFragment(options, operator, column, value) ==
    [s |-> "AppendFragment", To |-> options.variableForColumnExpr,
     Template |-> operator, Column |-> column, Value |-> value]
AppendArgument(options, value) ==
    [s |-> "AppendArgument", To |-> options.variableForColumnValues, Value |-> value]
Placeholder == [e |-> "Placeholder"]
NoValue == [e |-> "None"]

\* Regular: fragment and bound argument; Inline: the column only, no argument
makeScalarQueryOption(op, optionName, fieldName, columnName, ci, ref, options) ==
    IF op.shape = "opRegular"
    THEN <<AppendFragment(options, op.operator, columnName, Placeholder),
           AppendArgument(options,
               IF ref THEN Star(SimpleSelector(optionName, fieldName))
               ELSE SimpleSelector(optionName, fieldName))>>
    ELSE <<AppendFragment(options, op.operator, columnName, NoValue)>>

\* Constant: the value placeholder is the compiled-in literal, no argument
makeConstantQueryOption(op, optionName, constantValue, columnName, ci, ref, options) ==
    <<AppendFragment(options, op.operator, columnName, StringConstant(constantValue))>>

\* several columns compared against one caller value
makeUnionQueryOption(op, optionExpr, columnNames, ci, options) ==
    IF op.shape = "opRegular"
    THEN <<AppendFragment(options, op.operator, Join(columnNames, <<",", " ">>), Placeholder),
           AppendArgument(options, optionExpr)>>
    ELSE <<AppendFragment(options, op.operator, Join(columnNames, <<",", " ">>), NoValue)>>

\* one placeholder for the whole set, one array-typed argument
makeArrayQueryOption(op, optionName, fieldName, columnName, ci, options) ==
    <<AppendFragment(options, op.operator, columnName, Placeholder),
      AppendArgument(options, [e |-> "Array", X |-> SimpleSelector(optionName, fieldName)])>>

(***************************************************************************)
(* Filter/Argument Processor                                               *)
(***************************************************************************)
Stmts(body) == [status |-> "ok", body |-> body]

makeFindProcessorForUnion_noMultCheck(funcFilterOptionName, fieldName, union, field, options) ==
    LET b == getBuilder(field.CompareOperator)
    IN  IF IsPanic(b) THEN b
        ELSE IF IsStarExpr(field.Field.Type)
             THEN Stmts(<<If(NotEqual(SimpleSelector(funcFilterOptionName, fieldName), NilExpr),
                             makeUnionQueryOption(b.template,
                                 Star(SimpleSelector(funcFilterOptionName, fieldName)),
                                 union, field.CaseInsensitive, options))>>)
             ELSE Stmts(makeUnionQueryOption(b.template,
                            SimpleSelector(funcFilterOptionName, fieldName),
                            union, field.CaseInsensitive, options))

makeFindProcessorForUnion(funcFilterOptionName, fieldName, union, field, options) ==
    IF IsMult(field.CompareOperator)
    THEN Panic("joins cannot be used in multiple expressions")
    ELSE LET b == getBuilder(field.CompareOperator)
         IN  IF IsPanic(b) THEN b
             ELSE IF IsStarExpr(field.Field.Type)
                  THEN Stmts(<<If(NotEqual(SimpleSelector(funcFilterOptionName, fieldName), NilExpr),
                                  makeUnionQueryOption(b.template,
                                      Star(SimpleSelector(funcFilterOptionName, fieldName)),
                                      union, field.CaseInsensitive, options))>>)
                  ELSE Stmts(makeUnionQueryOption(b.template,
                                 SimpleSelector(funcFilterOptionName, fieldName),
                                 union, field.CaseInsensitive, options))

makeFindProcessorForSingle_noGuard(funcFilterOptionName, fieldName, field, options) ==
    LET b == getBuilder(field.CompareOperator)
    IN  IF IsPanic(b) THEN b
        ELSE Stmts(makeScalarQueryOption(b.template, funcFilterOptionName, fieldName,
                       sqlExpr(field.SourceSql), field.CaseInsensitive,
                       IsStarExpr(field.Field.Type), options))

makeFindProcessorForSingle(funcFilterOptionName, fieldName, field, options) ==
    LET b == getBuilder(field.CompareOperator)
    IN  IF IsPanic(b) THEN b
        ELSE IF IsStarExpr(field.Field.Type)
             THEN Stmts(<<If(NotEqual(SimpleSelector(funcFilterOptionName, fieldName), NilExpr),
                             makeScalarQueryOption(b.template, funcFilterOptionName, fieldName,
                                 sqlExpr(field.SourceSql), field.CaseInsensitive, TRUE, options))>>)
             ELSE Stmts(makeScalarQueryOption(b.template, funcFilterOptionName, fieldName,
                            sqlExpr(field.SourceSql), field.CaseInsensitive, FALSE, options))

makeFindProcessorForConst(funcFilterOptionName, fieldName, field, options) ==
    LET tmpOperator == getBuilder(field.CompareOperator)
    IN  IF IsPanic(tmpOperator) THEN tmpOperator
        ELSE LET operatorValue ==
                     IF tmpOperator.template.shape \in {"opInline", "opRegular"}
                     THEN tmpOperator.template.operator
                     ELSE <<"/", "*", " ", "%", "s", " ", "*", "/", " ", "%", "s">>
                 newOperator == [shape |-> "opConstant", operator |-> operatorValue]
             IN  Stmts(makeConstantQueryOption(newOperator, funcFilterOptionName,
                           field.Constant, sqlExpr(field.SourceSql),
                           field.CaseInsensitive, FALSE, options))

buildFindArgumentsProcessor_guardMult(mf, funcFilterOptionName, options) ==
    IF Len(mf.Field.Names) # 1 THEN Panic("not supported names count")
    ELSE LET fieldName == mf.Field.Names[1]
             r == IF mf.SourceSql.kind = "SourceSqlSomeColumns"
                  THEN makeFindProcessorForUnion(funcFilterOptionName, fieldName,
                           mf.SourceSql.ColumnNames, mf, options)
                  ELSE IF IsMult(mf.CompareOperator)
                  THEN LET b == getBuilder(mf.CompareOperator)
                           stmts == makeArrayQueryOption(b.template, funcFilterOptionName,
                                        fieldName, sqlExpr(mf.SourceSql),
                                        mf.CaseInsensitive, options)
                       IN  IF IsPanic(b) THEN b
                           ELSE IF IsStarExpr(mf.Field.Type)
                                THEN Stmts(<<If(NotEqual(SimpleSelector(funcFilterOptionName,
                                                    fieldName), NilExpr), stmts)>>)
                                ELSE Stmts(stmts)
                  ELSE IF mf.Constant # <<>>
                  THEN makeFindProcessorForConst(funcFilterOptionName, fieldName, mf, options)
                  ELSE makeFindProcessorForSingle(funcFilterOptionName, fieldName, mf, options)
             constOnly == /\ mf.SourceSql.kind # "SourceSqlSomeColumns"
                          /\ ~IsMult(mf.CompareOperator)
                          /\ mf.Constant # <<>>
         IN  IF IsPanic(r) THEN r
             ELSE [status |-> "ok", functionBody |-> r.body,
                   optionsFieldList |-> IF constOnly THEN <<>> ELSE <<mf.Field>>]

buildFindArgumentsProcessor_fieldPerLeaf(mf, funcFilterOptionName, options) ==
    IF Len(mf.Field.Names) # 1 THEN Panic("not supported names count")
    ELSE LET fieldName == mf.Field.Names[1]
             r == IF mf.SourceSql.kind = "SourceSqlSomeColumns"
                  THEN makeFindProcessorForUnion(funcFilterOptionName, fieldName,
                           mf.SourceSql.ColumnNames, mf, options)
                  ELSE IF IsMult(mf.CompareOperator)
                  THEN LET b == getBuilder(mf.CompareOperator)
                       IN  IF IsPanic(b) THEN b
                           ELSE Stmts(makeArrayQueryOption(b.template, funcFilterOptionName,
                                          fieldName, sqlExpr(mf.SourceSql),
                                          mf.CaseInsensitive, options))
                  ELSE IF mf.Constant # <<>>
                  THEN makeFindProcessorForConst(funcFilterOptionName, fieldName, mf, options)
                  ELSE makeFindProcessorForSingle(funcFilterOptionName, fieldName, mf, options)
             constOnly == /\ mf.SourceSql.kind # "SourceSqlSomeColumns"
                          /\ ~IsMult(mf.CompareOperator)
                          /\ mf.Constant # <<>>
         IN  IF IsPanic(r) THEN r
             ELSE [status |-> "ok", functionBody |-> r.body,
                   optionsFieldList |-> <<mf.Field>>]

\* MetaField.buildFindArgumentsProcessor: the statements and the option fields of one leaf
buildFindArgumentsProcessor(mf, funcFilterOptionName, options) ==
    IF Len(mf.Field.Names) # 1 THEN Panic("not supported names count")
    ELSE LET fieldName == mf.Field.Names[1]
             r == IF mf.SourceSql.kind = "SourceSqlSomeColumns"
                  THEN makeFindProcessorForUnion(funcFilterOptionName, fieldName,
                           mf.SourceSql.ColumnNames, mf, options)
                  ELSE IF IsMult(mf.CompareOperator)
                  THEN LET b == getBuilder(mf.CompareOperator)
                       IN  IF IsPanic(b) THEN b
                           ELSE Stmts(makeArrayQueryOption(b.template, funcFilterOptionName,
                                          fieldName, sqlExpr(mf.SourceSql),
                                          mf.CaseInsensitive, options))
                  ELSE IF mf.Constant # <<>>
                  THEN makeFindProcessorForConst(funcFilterOptionName, fieldName, mf, options)
                  ELSE makeFindProcessorForSingle(funcFilterOptionName, fieldName, mf, options)
             constOnly == /\ mf.SourceSql.kind # "SourceSqlSomeColumns"
                          /\ ~IsMult(mf.CompareOperator)
                          /\ mf.Constant # <<>>
         IN  IF IsPanic(r) THEN r
             ELSE [status |-> "ok", functionBody |-> r.body,
                   optionsFieldList |-> IF constOnly THEN <<>> ELSE <<mf.Field>>]

\* the name of the carrier variable and of the option field of a Group
RECURSIVE newFieldName(_, _, _)
newFieldName(f, k, acc) ==
    IF k > Len(f) THEN [status |-> "ok", name |-> acc]
    ELSE IF f[k].kind = "MetaFields" THEN Panic("unimplemented")
    ELSE IF Len(f[k].Field.Names) = 0 THEN Panic("index out of range")
    ELSE newFieldName(f, k + 1,
             IF ~Contains(acc, f[k].Field.Names[1]) THEN acc \o f[k].Field.Names[1] ELSE acc)

internalOptionName_same(funcFilterOptionTypeName, i) == funcFilterOptionTypeName

internalOptionName(funcFilterOptionTypeName, i) == funcFilterOptionTypeName \o Itoa(i)

newVarName_shared(options, i) == options.variableForColumnExpr \o Itoa(0)

newVarName(options, i) == options.variableForColumnExpr \o Itoa(i)

\* filters = append(filters, "(" + strings.Join(subFilters, " or ") + ")")
AppendGroupFragment(options, subFilters) ==
    Assign(<<options.variableForColumnExpr>>,
           <<Call(AppendFn, <<Ident(options.variableForColumnExpr),
                  Add(<<StringConstant(<<"(">>),
                        Call(StringsJoinFn, <<Ident(subFilters),
                                              StringConstant(<<" ", "o", "r", " ">>)>>),
                        StringConstant(<<")">>)>>)>>)>>)

DeclareGroupVars(funcFilterOptionName, newVarNameAsField, subFilters) ==
    Var(<<VariableValue(newVarNameAsField,
              Selector(Ident(funcFilterOptionName), newVarNameAsField)),
          VariableValue(subFilters,
              Call(MakeFn, <<ArrayType(StringType), IntegerConstant(0)>>))>>)

MergeDeclarations(declarations, decl2) ==
    [k \in (DOMAIN declarations) \cup (DOMAIN decl2) |->
        IF k \in DOMAIN decl2 THEN decl2[k] ELSE declarations[k]]

TypeSpec(name, fields) == [Name |-> name, Fields |-> fields]
EmptyDeclarations == [k \in {} |-> TypeSpec(<<>>, <<>>)]

subOptions_ownArguments(options, subFilters) ==
    [appendValueFormat |-> options.appendValueFormat,
     variableForColumnNames |-> options.variableForColumnNames,
     variableForColumnValues |-> options.variableForColumnValues \o <<"0">>,
     variableForColumnExpr |-> subFilters]

\* the builderOptions of the recursive call: only the fragment accumulator is new
subOptions(options, subFilters) ==
    [appendValueFormat |-> options.appendValueFormat,
     variableForColumnNames |-> options.variableForColumnNames,
     variableForColumnValues |-> options.variableForColumnValues,
     variableForColumnExpr |-> subFilters]

RECURSIVE BuildFindArgumentsProcessor(_, _, _, _)
RECURSIVE BuildFindLoop(_, _, _, _, _, _)

BuildFindLoop_fragmentFirst(funcFilterOptionName, funcFilterOptionTypeName, optionFields, options, i, acc) ==
    IF i > Len(optionFields) THEN [status |-> "ok"] @@ acc
    ELSE LET f == optionFields[i]
         IN  IF f.kind = "MetaField"
             THEN LET ex == buildFindArgumentsProcessor(f, funcFilterOptionName, options)
                  IN  IF IsPanic(ex) THEN ex
                      ELSE BuildFindLoop(funcFilterOptionName, funcFilterOptionTypeName,
                               optionFields, options, i + 1,
                               [functionBody |-> acc.functionBody \o ex.functionBody,
                                declarations |-> acc.declarations,
                                optionsFieldList |-> acc.optionsFieldList \o ex.optionsFieldList])
             ELSE LET nfn == newFieldName(f.items, 1, <<"S", "u", "b">>)
                  IN  IF IsPanic(nfn) THEN nfn
                      ELSE LET newVarNameAsField == nfn.name
                               optionName == internalOptionName(funcFilterOptionTypeName, i - 1)
                               subFilters == newVarName(options, i - 1)
                               sub == BuildFindArgumentsProcessor(newVarNameAsField, optionName,
                                          f.items, subOptions(options, subFilters))
                           IN  IF IsPanic(sub) THEN sub
                               ELSE BuildFindLoop(funcFilterOptionName, funcFilterOptionTypeName,
                                        optionFields, options, i + 1,
                                        [functionBody |->
                                            acc.functionBody
                                            \o <<DeclareGroupVars(funcFilterOptionName,
                                                     newVarNameAsField, subFilters)>>
                                            \o <<AppendGroupFragment(options, subFilters)>>
                                            \o sub.body,
                                         declarations |->
                                            MergeDeclarations(acc.declarations, sub.declarations),
                                         optionsFieldList |->
                                            acc.optionsFieldList \o sub.optionsFuncField])

\* the loop over optionFields from its element at position i (index i - 1)
BuildFindLoop(funcFilterOptionName, funcFilterOptionTypeName, optionFields, options, i, acc) ==
    IF i > Len(optionFields) THEN [status |-> "ok"] @@ acc
    ELSE LET f == optionFields[i]
         IN  IF f.kind = "MetaField"
             THEN LET ex == buildFindArgumentsProcessor(f, funcFilterOptionName, options)
                  IN  IF IsPanic(ex) THEN ex
                      ELSE BuildFindLoop(funcFilterOptionName, funcFilterOptionTypeName,
                               optionFields, options, i + 1,
                               [functionBody |-> acc.functionBody \o ex.functionBody,
                                declarations |-> acc.declarations,
                                optionsFieldList |-> acc.optionsFieldList \o ex.optionsFieldList])
             ELSE LET nfn == newFieldName(f.items, 1, <<"S", "u", "b">>)
                  IN  IF IsPanic(nfn) THEN nfn
                      ELSE LET newVarNameAsField == nfn.name
                               optionName == internalOptionName(funcFilterOptionTypeName, i - 1)
                               subFilters == newVarName(options, i - 1)
                               sub == BuildFindArgumentsProcessor(newVarNameAsField, optionName,
                                          f.items, subOptions(options, subFilters))
                           IN  IF IsPanic(sub) THEN sub
                               ELSE BuildFindLoop(funcFilterOptionName, funcFilterOptionTypeName,
                                        optionFields, options, i + 1,
                                        [functionBody |->
                                            acc.functionBody
                                            \o <<DeclareGroupVars(funcFilterOptionName,
                                                     newVarNameAsField, subFilters)>>
                                            \o sub.body
                                            \o <<AppendGroupFragment(options, subFilters)>>,
                                         declarations |->
                                            MergeDeclarations(acc.declarations, sub.declarations),
                                         optionsFieldList |->
                                            acc.optionsFieldList \o sub.optionsFuncField])

BuildFindArgumentsProcessor_noEmptyShape(funcFilterOptionName, funcFilterOptionTypeName, optionFields, options) ==
    LET r == BuildFindLoop(funcFilterOptionName, funcFilterOptionTypeName, optionFields, options, 1,
                 [functionBody |-> <<>>, declarations |-> EmptyDeclarations,
                  optionsFieldList |-> <<>>])
    IN  IF IsPanic(r) THEN r
        ELSE IF Len(r.optionsFieldList) = 0
             THEN [status |-> "ok", body |-> r.functionBody,
                   declarations |-> r.declarations, optionsFuncField |-> <<>>]
             ELSE [status |-> "ok",
                   body |-> r.functionBody,
                   declarations |->
                       MergeDeclarations(r.declarations,
                           (funcFilterOptionTypeName :>
                               TypeSpec(funcFilterOptionTypeName, r.optionsFieldList))),
                   optionsFuncField |->
                       <<AstField(<<funcFilterOptionName>>, Ident(funcFilterOptionTypeName))>>]

BuildFindArgumentsProcessor(funcFilterOptionName, funcFilterOptionTypeName, optionFields, options) ==
    LET r == BuildFindLoop(funcFilterOptionName, funcFilterOptionTypeName, optionFields, options, 1,
                 [functionBody |-> <<>>, declarations |-> EmptyDeclarations,
                  optionsFieldList |-> <<>>])
    IN  IF IsPanic(r) THEN r
        ELSE [status |-> "ok",
              body |-> r.functionBody,
              declarations |->
                  MergeDeclarations(r.declarations,
                      (funcFilterOptionTypeName :>
                          TypeSpec(funcFilterOptionTypeName, r.optionsFieldList))),
              optionsFuncField |->
                  <<AstField(<<funcFilterOptionName>>, Ident(funcFilterOptionTypeName))>>]

(***************************************************************************)
(* Destination Field Extractor                                             *)
(***************************************************************************)
RECURSIVE ExtractNames_oneColumn(_, _, _, _, _)
ExtractNames_oneColumn(rowVariableName, field, n, refs, cols) ==
    IF n > Len(field.Field.Names) THEN [refs |-> refs, cols |-> cols]
    ELSE ExtractNames_oneColumn(rowVariableName, field, n + 1,
             Append(refs, Ref(SimpleSelector(rowVariableName, field.Field.Names[n]))),
             IF n = 1 THEN Append(cols, sqlExpr(field.SourceSql)) ELSE cols)

RECURSIVE ExtractNames(_, _, _, _, _)
ExtractNames(rowVariableName, field, n, refs, cols) ==
    IF n > Len(field.Field.Names) THEN [refs |-> refs, cols |-> cols]
    ELSE ExtractNames(rowVariableName, field, n + 1,
             Append(refs, Ref(SimpleSelector(rowVariableName, field.Field.Names[n]))),
             Append(cols, sqlExpr(field.SourceSql)))

RECURSIVE ExtractLoop_skipGroups(_, _, _, _, _)
ExtractLoop_skipGroups(rowVariableName, rowStructureFields, i, refs, cols) ==
    IF i > Len(rowStructureFields)
    THEN [status |-> "ok", destinationStructureFields |-> refs,
          sourceTableColumnNames |-> cols]
    ELSE IF rowStructureFields[i].kind = "MetaField"
         THEN LET r == ExtractNames(rowVariableName, rowStructureFields[i], 1, refs, cols)
              IN  ExtractLoop_skipGroups(rowVariableName, rowStructureFields, i + 1, r.refs, r.cols)
         ELSE ExtractLoop_skipGroups(rowVariableName, rowStructureFields, i + 1, refs, cols)

RECURSIVE ExtractLoop(_, _, _, _, _)
ExtractLoop(rowVariableName, rowStructureFields, i, refs, cols) ==
    IF i > Len(rowStructureFields)
    THEN [status |-> "ok", destinationStructureFields |-> refs,
          sourceTableColumnNames |-> cols]
    ELSE IF rowStructureFields[i].kind = "MetaField"
         THEN LET r == ExtractNames(rowVariableName, rowStructureFields[i], 1, refs, cols)
              IN  ExtractLoop(rowVariableName, rowStructureFields, i + 1, r.refs, r.cols)
         ELSE Panic("this process supports only MetaField struct")

ExtractDestinationFieldRefsFromStruct(rowVariableName, rowStructureFields) ==
    ExtractLoop(rowVariableName, rowStructureFields, 1, <<>>, <<>>)

(***************************************************************************)
(* Input-Value Processor                                                   *)
(***************************************************************************)
tagEncrypt == "encrypt"
tagGenerateNow == "generate:now"

\* index of the first occurrence of str in the list, -1 when absent
arrayFind(list, str) ==
    IF \E i \in 1..Len(list) : list[i] = str
    THEN (CHOOSE i \in 1..Len(list) : list[i] = str /\ \A j \in 1..(i - 1) : list[j] # str) - 1
    ELSE -1

\* a generated value is never read from the carrier: the field is omitted
makeValuePicker(tags, fieldName) ==
    IF arrayFind(tags, tagGenerateNow) >= 0
    THEN [valueExpr |-> [e |-> "CallExpr", Fun |-> SimpleSelector(<<"t", "i", "m", "e">>, <<"N", "o", "w">>),
                         Args |-> <<>>, Ellipsis |-> FALSE],
          isOmittedField |-> TRUE]
    ELSE [valueExpr |-> fieldName, isOmittedField |-> FALSE]

\* the statement that appends the value under the column label
processValueWrapper(colName, valueExpr, options) ==
    <<[s |-> "AppendValue", To |-> options.variableForColumnValues,
       Column |-> colName, Value |-> valueExpr]>>

makeEncryptPasswordCall(hook, valueForEncrypt) ==
    IF hook # Nil
    THEN [e |-> "CallExpr", Fun |-> Ident(<<hook>>), Args |-> <<valueForEncrypt>>,
          Ellipsis |-> FALSE]
    ELSE Call(makeFunc(Ident(<<"e", "n", "c", "r", "y", "p", "t", "P", "a", "s", "s", "w", "o", "r", "d">>),
                       1, FALSE),
              <<valueForEncrypt>>)

InputValueOfField_wrapperFirst(hook, funcInputOptionName, field, options) ==
    IF field.kind # "MetaField" THEN Panic("supports only MetaField")
    ELSE IF Len(field.Field.Names) = 0 THEN Panic("index out of range")
    ELSE IF Len(field.Tag) = 0 THEN Panic("slice bounds out of range")
    ELSE LET fieldName == SimpleSelector(funcInputOptionName, field.Field.Names[1])
             picked == makeValuePicker(Tail(field.Tag), fieldName)
             isOmittedField == picked.isOmittedField
             isStarExpression == IsStarExpr(field.Field.Type)
             v1 == IF ~isStarExpression /\ field.IsCustomType
                   THEN Ref(picked.valueExpr) ELSE picked.valueExpr
             v2 == IF arrayFind(field.Tag, tagEncrypt) > 0
                   THEN makeEncryptPasswordCall(hook,
                            IF isStarExpression THEN Star(v1)
                            ELSE IF field.IsMaybeType
                                 THEN Selector(v1, <<"v", "a", "l", "u", "e">>)
                                 ELSE v1)
                   ELSE v1
             stmts == processValueWrapper(sqlExpr(field.SourceSql), v2, options)
             wrapped ==
                 IF ~isOmittedField /\ field.IsMaybeType
                 THEN <<If(Not([e |-> "CallExpr",
                               Fun |-> Selector(fieldName, <<"I", "s", "O", "m", "i", "t", "t", "e", "d">>),
                               Args |-> <<>>, Ellipsis |-> FALSE]),
                           stmts)>>
                 ELSE IF isStarExpression /\ ~isOmittedField
                      THEN <<If(NotNil(fieldName), stmts)>>
                      ELSE stmts
         IN  [status |-> "ok", stmts |-> wrapped,
              structFields |-> IF isOmittedField THEN <<>> ELSE <<field.Field>>]

\* the statements and the shape field of one field of the write path
InputValueOfField(hook, funcInputOptionName, field, options) ==
    IF field.kind # "MetaField" THEN Panic("supports only MetaField")
    ELSE IF Len(field.Field.Names) = 0 THEN Panic("index out of range")
    ELSE IF Len(field.Tag) = 0 THEN Panic("slice bounds out of range")
    ELSE LET fieldName == SimpleSelector(funcInputOptionName, field.Field.Names[1])
             picked == makeValuePicker(Tail(field.Tag), fieldName)
             isOmittedField == picked.isOmittedField
             isStarExpression == IsStarExpr(field.Field.Type)
             v1 == IF ~isStarExpression /\ field.IsCustomType
                   THEN Ref(picked.valueExpr) ELSE picked.valueExpr
             v2 == IF arrayFind(field.Tag, tagEncrypt) > 0
                   THEN makeEncryptPasswordCall(hook,
                            IF isStarExpression THEN Star(v1)
                            ELSE IF field.IsMaybeType
                                 THEN Selector(v1, <<"v", "a", "l", "u", "e">>)
                                 ELSE v1)
                   ELSE v1
             stmts == processValueWrapper(sqlExpr(field.SourceSql), v2, options)
             wrapped ==
                 IF isStarExpression /\ ~isOmittedField
                 THEN <<If(NotNil(fieldName), stmts)>>
                 ELSE IF ~isOmittedField /\ field.IsMaybeType
                      THEN <<If(Not([e |-> "CallExpr",
                                    Fun |-> Selector(fieldName, <<"I", "s", "O", "m", "i", "t", "t", "e", "d">>),
                                    Args |-> <<>>, Ellipsis |-> FALSE]),
                                stmts)>>
                      ELSE stmts
         IN  [status |-> "ok", stmts |-> wrapped,
              structFields |-> IF isOmittedField THEN <<>> ELSE <<field.Field>>]

RECURSIVE BuildInputLoop_prepend(_, _, _, _, _, _, _)
BuildInputLoop_prepend(hook, funcInputOptionName, optionFields, options, i, functionBody, optionStructFields) ==
    IF i > Len(optionFields)
    THEN [status |-> "ok", functionBody |-> functionBody,
          optionStructFields |-> optionStructFields]
    ELSE LET r == InputValueOfField(hook, funcInputOptionName, optionFields[i], options)
         IN  IF IsPanic(r) THEN r
             ELSE BuildInputLoop_prepend(hook, funcInputOptionName, optionFields, options, i + 1,
                      r.stmts \o functionBody, r.structFields \o optionStructFields)

RECURSIVE BuildInputLoop(_, _, _, _, _, _, _)
BuildInputLoop(hook, funcInputOptionName, optionFields, options, i, functionBody, optionStructFields) ==
    IF i > Len(optionFields)
    THEN [status |-> "ok", functionBody |-> functionBody,
          optionStructFields |-> optionStructFields]
    ELSE LET r == InputValueOfField(hook, funcInputOptionName, optionFields[i], options)
         IN  IF IsPanic(r) THEN r
             ELSE BuildInputLoop(hook, funcInputOptionName, optionFields, options, i + 1,
                      functionBody \o r.stmts, optionStructFields \o r.structFields)

BuildInputValuesProcessor_alwaysShape(hook, funcInputOptionName, funcInputOptionTypeName, optionFields, options) ==
    LET r == BuildInputLoop(hook, funcInputOptionName, optionFields, options, 1, <<>>, <<>>)
    IN  IF IsPanic(r) THEN r
        ELSE [status |-> "ok", functionBody |-> r.functionBody,
              declarations |->
                  (funcInputOptionTypeName :>
                      TypeSpec(funcInputOptionTypeName, r.optionStructFields)),
              optionsFuncField |->
                  <<AstField(<<funcInputOptionName>>, Ident(funcInputOptionTypeName))>>]

BuildInputValuesProcessor(hook, funcInputOptionName, funcInputOptionTypeName, optionFields, options) ==
    LET r == BuildInputLoop(hook, funcInputOptionName, optionFields, options, 1, <<>>, <<>>)
    IN  IF IsPanic(r) THEN r
        ELSE IF Len(r.optionStructFields) = 0
             THEN [status |-> "ok", functionBody |-> r.functionBody,
                   declarations |-> EmptyDeclarations, optionsFuncField |-> <<>>]
             ELSE [status |-> "ok", functionBody |-> r.functionBody,
                   declarations |->
                       (funcInputOptionTypeName :>
                           TypeSpec(funcInputOptionTypeName, r.optionStructFields)),
                   optionsFuncField |->
                       <<AstField(<<funcInputOptionName>>, Ident(funcInputOptionTypeName))>>]

(***************************************************************************)
(* Execution Block Builder                                                 *)
(***************************************************************************)
CallEllipsis(fn, args) ==
    IF IsPanic(checkArgsCount(fn, Len(args))) THEN checkArgsCount(fn, Len(args))
    ELSE [e |-> "CallExpr", Fun |-> fn.FunctionName, Args |-> args, Ellipsis |-> TRUE]

\* the call of a defer statement carries no ellipsis
DeferCall(fn, args) ==
    IF IsPanic(checkArgsCount(fn, Len(args))) THEN checkArgsCount(fn, Len(args))
    ELSE [s |-> "DeferStmt",
          Call |-> [e |-> "CallExpr", Fun |-> fn.FunctionName, Args |-> args,
                    Ellipsis |-> FALSE]]

DbQueryFn == makeFunc(SimpleSelector(<<"d", "b">>, <<"Q", "u", "e", "r", "y">>), 1, TRUE)
RowsScanFn_noMinimum == makeFunc(SimpleSelector(<<"r", "o", "w", "s">>, <<"S", "c", "a", "n">>), 0, TRUE)
RowsScanFn == makeFunc(SimpleSelector(<<"r", "o", "w", "s">>, <<"S", "c", "a", "n">>), 1, TRUE)
RowsCloseFn == makeFunc(SimpleSelector(<<"r", "o", "w", "s">>, <<"C", "l", "o", "s", "e">>), 0, FALSE)

ReturnEmpty == [s |-> "ReturnStmt", Results |-> <<>>]
IfInit(initiation, condition, body) ==
    [s |-> "IfStmt", Init |-> initiation, Cond |-> condition, Body |-> body]
MakeVarNames(varsOf) == [i \in 1..Len(varsOf) |-> Ident(varsOf[i])]
VariableType(name, varType) == [Names |-> <<name>>, Type |-> varType, Values |-> <<>>]

\* if <varName>, err = callExpr(); err != nil { return }
MakeCallWithErrChecking(varName, callExpr) ==
    IF varName # <<>>
    THEN IfInit(Assign(MakeVarNames(<<varName, <<"e", "r", "r">>>>), <<callExpr>>),
                NotEqual(Ident(<<"e", "r", "r">>), NilExpr), <<ReturnEmpty>>)
    ELSE IfInit(Assign(MakeVarNames(<<<<"e", "r", "r">>>>), <<callExpr>>),
                NotEqual(Ident(<<"e", "r", "r">>), NilExpr), <<ReturnEmpty>>)

ScanDestVariable == <<"r", "o", "w">>
ArgsVariable == <<"a", "r", "g", "s">>

\* a variableName is a variableEngine without a wrapper
variableName(name) == [variableName |-> name, wrapper |-> "none"]
variableWrap(name, wrapper) == [variableName |-> name, wrapper |-> wrapper]

\* the wrappers a caller passes: functions from expression to expression, or nil
Wrappers == {"Star", "Ref"}
ApplyWrapper(wrapper, expr) == IF wrapper = "Star" THEN Star(expr) ELSE Ref(expr)

makeExpr(v) ==
    IF v.wrapper = "none" THEN [status |-> "ok", expr |-> Ident(v.variableName)]
    ELSE IF v.wrapper = Nil THEN Panic("invalid memory address or nil pointer dereference")
         ELSE [status |-> "ok", expr |-> ApplyWrapper(v.wrapper, Ident(v.variableName))]

MakeExecutionOption(rowStructName, sqlVariableName) ==
    [rowVariableName |-> ScanDestVariable,
     rowStructTypeName |-> rowStructName,
     variableForSqlText |-> variableName(sqlVariableName),
     variableForArguments |-> variableName(ArgsVariable)]

MakeExecutionOptionWithWrappers(rowStructName, sqlVariableName, sqlText, sqlArgs) ==
    [rowVariableName |-> ScanDestVariable,
     rowStructTypeName |-> rowStructName,
     variableForSqlText |-> variableWrap(sqlVariableName, sqlText),
     variableForArguments |-> variableWrap(ArgsVariable, sqlArgs)]

\* the scan strategies: exactly one row, all rows
scanBlockForFindOnce(stmts) == [s |-> "ScanOnce", Body |-> stmts]
scanBlockForFindAll(stmts) == [s |-> "ScanAll", Body |-> stmts]
WrapperFindOne == "scanBlockForFindOnce"
WrapperFindAll == "scanBlockForFindAll"
ApplyScanWrapper(scanBlock, stmts) ==
    IF scanBlock = WrapperFindOne THEN scanBlockForFindOnce(stmts)
    ELSE scanBlockForFindAll(stmts)

BuildExecutionBlockForFunction_releaseLast(scanBlock, fieldRefs, options) ==
    LET sqlText == makeExpr(options.variableForSqlText)
        sqlArgs == makeExpr(options.variableForArguments)
        scan == Call(RowsScanFn, fieldRefs)
    IN  IF IsPanic(sqlText) THEN sqlText
        ELSE IF IsPanic(sqlArgs) THEN sqlArgs
        ELSE IF IsPanic(checkArgsCount(RowsScanFn, Len(fieldRefs))) THEN scan
        ELSE IF scanBlock = Nil
             THEN Panic("invalid memory address or nil pointer dereference")
        ELSE [status |-> "ok",
              stmts |->
                  <<MakeCallWithErrChecking(<<"r", "o", "w", "s">>,
                        CallEllipsis(DbQueryFn, <<sqlText.expr, sqlArgs.expr>>)),
                    ApplyScanWrapper(scanBlock,
                        <<Var(<<VariableType(options.rowVariableName,
                                    Ident(options.rowStructTypeName))>>),
                          MakeCallWithErrChecking(<<>>, scan)>>),
                    DeferCall(RowsCloseFn, <<>>)>>]

\* the elements of the statement list are evaluated in order, the arguments of a
\* call before the call: the first panic wins
BuildExecutionBlockForFunction(scanBlock, fieldRefs, options) ==
    LET sqlText == makeExpr(options.variableForSqlText)
        sqlArgs == makeExpr(options.variableForArguments)
        scan == Call(RowsScanFn, fieldRefs)
    IN  IF IsPanic(sqlText) THEN sqlText
        ELSE IF IsPanic(sqlArgs) THEN sqlArgs
        ELSE IF IsPanic(checkArgsCount(RowsScanFn, Len(fieldRefs))) THEN scan
        ELSE IF scanBlock = Nil
             THEN Panic("invalid memory address or nil pointer dereference")
        ELSE [status |-> "ok",
              stmts |->
                  <<MakeCallWithErrChecking(<<"r", "o", "w", "s">>,
                        CallEllipsis(DbQueryFn, <<sqlText.expr, sqlArgs.expr>>)),
                    DeferCall(RowsCloseFn, <<>>),
                    ApplyScanWrapper(scanBlock,
                        <<Var(<<VariableType(options.rowVariableName,
                                    Ident(options.rowStructTypeName))>>),
                          MakeCallWithErrChecking(<<>>, scan)>>)>>]

(***************************************************************************)
(* Inputs of the synthesis calls                                           *)
(***************************************************************************)
SeqsUpTo(S, n) == UNION {[1..k -> S] : k \in 0..n}

CarrierName == <<"o">>
ShapeName == <<"T">>
RowName == <<"r", "o", "w">>
AllNames == <<<<"A">>, <<"B">>, <<"C">>, <<"D">>>>
PointerType == Star(StringType)
ColA == SourceSqlColumn(<<"a">>)
ColB == SourceSqlColumn(<<"b">>)
ExprA == SourceSqlExpression(<<"a", "+", "1">>)
UnionAB == SourceSqlSomeColumns(<<<<"a">>, <<"b">>>>)

\* one leaf under every operator, type, source shape and constant
FocusLeaves ==
    {MetaField(<<<<"A">>>>, t, src, op, c) :
        t \in {StringType, PointerType}, src \in {ColA, ExprA, UnionAB},
        op \in OperatorInputs, c \in {<<>>, <<"7">>}}

LeafEqual == MetaField(<<<<"A">>>>, StringType, ColA, CompareEqual, <<>>)
LeafPtrGreat == MetaField(<<<<"B">>>>, PointerType, ColB, CompareGreatThan, <<>>)
LeafIn == MetaField(<<<<"A">>>>, StringType, ColA, CompareIn, <<>>)
LeafConst == MetaField(<<<<"B">>>>, StringType, ColB, CompareEqual, <<"7">>)
LeafPtrUnion == MetaField(<<<<"A">>>>, PointerType, UnionAB, CompareLike, <<>>)
LeafTwoNames == MetaField(<<<<"A">>, <<"B">>>>, StringType, ColA, CompareEqual, <<>>)

BasicLeaves == {LeafEqual, LeafPtrGreat, LeafIn, LeafConst, LeafPtrUnion, LeafTwoNames}
SmallGroups ==
    {MetaFields(<<>>), MetaFields(<<LeafEqual>>), MetaFields(<<LeafPtrGreat>>),
     MetaFields(<<MetaFields(<<>>)>>)}
\* lists of leaves and small Groups
BasicLists == SeqsUpTo(BasicLeaves \cup SmallGroups, MaxFields)

\* Groups of up to MaxGroupLen children: alone, after a leaf, before another Group,
\* between two leaves
GroupChildren == {LeafEqual, LeafPtrGreat, LeafIn, LeafPtrUnion, MetaFields(<<>>)}
BasicGroups == {MetaFields(c) : c \in SeqsUpTo(GroupChildren, MaxGroupLen)}
GroupLists ==
    {<<g>> : g \in BasicGroups}
    \cup {<<LeafPtrGreat, g>> : g \in BasicGroups}
    \cup {<<g, MetaFields(<<LeafEqual>>)>> : g \in BasicGroups}
    \cup {<<LeafEqual, g, LeafPtrGreat>> : g \in BasicGroups}

FocusLists ==
    {<<f>> : f \in FocusLeaves}
    \cup {<<MetaFields(<<f>>)>> : f \in FocusLeaves}
    \cup {<<LeafPtrGreat, f>> : f \in FocusLeaves}
    \cup {<<MetaFields(<<LeafEqual, f>>), LeafPtrGreat>> : f \in FocusLeaves}
FindInputs == BasicLists \cup GroupLists \cup FocusLists

\* leaves of the scan path: 0..MaxNames names
ScanLeaves ==
    {MetaField(SubSeq(AllNames, 1, k), StringType, src, CompareEqual, <<>>) :
        k \in 0..MaxNames, src \in {ColA, UnionAB}}
    \cup {MetaField(<<<<"B">>>>, PointerType, ExprA, CompareEqual, <<>>)}
ScanInputs ==
    SeqsUpTo(ScanLeaves \cup {MetaFields(<<>>), MetaFields(<<LeafEqual>>)}, MaxFields)

\* one leaf of the write path under every type, tag list and value kind
WriteLeaves ==
    {WriteField(<<<<"A">>>>, t, ColA, tag, maybe, custom) :
        t \in {StringType, PointerType},
        tag \in {<<<<"a">>>>, <<<<"a">>, tagEncrypt>>, <<<<"a">>, tagGenerateNow>>,
                 <<<<"a">>, tagGenerateNow, tagEncrypt>>},
        maybe \in BOOLEAN, custom \in BOOLEAN}
    \cup {WriteField(<<>>, StringType, ColA, <<<<"a">>>>, FALSE, FALSE),
          WriteField(<<<<"A">>>>, StringType, ColA, <<>>, FALSE, FALSE)}
WritePlain == WriteField(<<<<"B">>>>, StringType, ColB, <<<<"b">>>>, FALSE, FALSE)
WritePointer == WriteField(<<<<"B">>>>, PointerType, ColB, <<<<"b">>>>, FALSE, FALSE)
WriteGenerated == WriteField(<<<<"C">>>>, StringType, ColB, <<<<"c">>, tagGenerateNow>>, FALSE, FALSE)
WriteInputs ==
    SeqsUpTo({WritePlain, WritePointer, WriteGenerated, MetaFields(<<>>),
              MetaFields(<<LeafEqual>>)}, MaxFields)
    \cup {<<w>> : w \in WriteLeaves}
    \cup {<<WritePlain, w>> : w \in WriteLeaves}
    \cup {<<w, WriteGenerated>> : w \in WriteLeaves}
    \cup {<<w, MetaFields(<<>>)>> : w \in WriteLeaves}

\* the execution block: both scan strategies and the nil one, 0..MaxFields destination
\* references, plain sources and sources under every pair of wrappers (nil included)
SqlVariableName == <<"s", "q", "l">>
DestinationRefs == {Ref(SimpleSelector(ScanDestVariable, AllNames[k])) : k \in 1..2}
ExecutionOptions ==
    {MakeExecutionOption(ShapeName, SqlVariableName)}
    \cup {MakeExecutionOptionWithWrappers(ShapeName, SqlVariableName, sqlText, sqlArgs) :
             sqlText \in Wrappers \cup {Nil}, sqlArgs \in Wrappers \cup {Nil}}
ExecutionInputs ==
    {[scanBlock |-> w, fieldRefs |-> refs, options |-> o] :
        w \in {WrapperFindOne, WrapperFindAll, Nil},
        refs \in SeqsUpTo(DestinationRefs, MaxFields),
        o \in ExecutionOptions}

\* descriptors and argument lists of the call constructors
Atoms == {Ident(<<"x">>), Ident(<<"y">>), Ident(<<"z">>)}
Descriptors ==
    {makeFunc(Ident(<<"f">>), m, ext) : m \in (0 - 1)..MaxArgs, ext \in BOOLEAN}
ConstructorInputs ==
    {[fn |-> d, args |-> a] :
        d \in Descriptors, a \in SeqsUpTo({Ident(<<"x">>), Ident(<<"y">>)}, MaxArgs)}
\* the operands of Or: one to MaxOperands boolean variables
OrInputs == SeqsUpTo(Atoms, MaxOperands) \ {<<>>}

\* calls that are repeated while the registries are being set up
WriteEncrypted == WriteField(<<<<"A">>>>, StringType, ColA, <<<<"a">>, tagEncrypt>>, FALSE, FALSE)
RepeatedInputs ==
    [BuildFindArgumentsProcessor |->
         {<<>>, <<LeafEqual>>, <<MetaFields(<<LeafEqual, LeafPtrGreat>>)>>,
          <<MetaFields(<<MetaFields(<<>>)>>)>>},
     BuildInputValuesProcessor |->
         {<<WritePlain>>, <<WriteEncrypted>>, <<WriteGenerated, WriteEncrypted>>,
          <<MetaFields(<<>>)>>},
     ExtractDestinationFieldRefsFromStruct |-> {<<LeafTwoNames>>, <<MetaFields(<<>>)>>},
     BuildExecutionBlockForFunction |->
         {[scanBlock |-> WrapperFindOne, fieldRefs |-> refs,
           options |-> MakeExecutionOption(ShapeName, SqlVariableName)] :
              refs \in SeqsUpTo(DestinationRefs, 1)}]

(***************************************************************************)
(* The calls of the API.  A call is drawn with its input and is pending    *)
(* until the function has been applied to it.                              *)
(***************************************************************************)
Pending == [status |-> "pending"]
\* seen: the registry contents the call was made under; first: the outcome of an
\* earlier call of the same function on the same input, if there was one
CallOf(fn, in) == [fn |-> fn, in |-> in, out |-> Pending, seen |-> <<>>, first |-> <<>>]
IsCall(fn) == last.fn = fn /\ last.out = Pending
Done(fn) == last.fn = fn /\ last.out # Pending
Completed(fn) == last.fn = fn /\ last.out.status = "ok"
Aborted(fn) == last.fn = fn /\ last.out.status = "panic"
Registries == <<makeEncryptPasswordCallCustom, registeredGenerators, regLog, registering>>
RegistryContents == <<makeEncryptPasswordCallCustom, registeredGenerators>>

CallCheck ==
    /\ IsCall("Check")
    /\ last' = [last EXCEPT !.out = Check(last.in)]
    /\ UNCHANGED Registries

CallGetBuilder ==
    /\ IsCall("getBuilder")
    /\ last' = [last EXCEPT !.out = getBuilder(last.in)]
    /\ UNCHANGED Registries

CallLeafFindProcessor ==
    /\ IsCall("buildFindArgumentsProcessor")
    /\ last' = [last EXCEPT !.out =
                   buildFindArgumentsProcessor(last.in.mf, last.in.carrier, FindBuilderOptions)]
    /\ UNCHANGED Registries

CallBuildFindArgumentsProcessor ==
    /\ IsCall("BuildFindArgumentsProcessor")
    /\ last' = [last EXCEPT !.out =
                   BuildFindArgumentsProcessor(CarrierName, ShapeName, last.in, FindBuilderOptions),
                   !.seen = RegistryContents]
    /\ UNCHANGED Registries

CallExtractDestinationFieldRefsFromStruct ==
    /\ IsCall("ExtractDestinationFieldRefsFromStruct")
    /\ last' = [last EXCEPT !.out = ExtractDestinationFieldRefsFromStruct(RowName, last.in),
                            !.seen = RegistryContents]
    /\ UNCHANGED Registries

CallBuildInputValuesProcessor_registersDefault ==
    /\ IsCall("BuildInputValuesProcessor")
    /\ last' = [last EXCEPT !.out =
                   BuildInputValuesProcessor(makeEncryptPasswordCallCustom, CarrierName,
                       ShapeName, last.in, InsertBuilderOptions),
                   !.seen = RegistryContents]
    /\ makeEncryptPasswordCallCustom' =
           IF makeEncryptPasswordCallCustom = Nil THEN "encA" ELSE makeEncryptPasswordCallCustom
    /\ UNCHANGED <<registeredGenerators, regLog, registering>>

CallBuildInputValuesProcessor ==
    /\ IsCall("BuildInputValuesProcessor")
    /\ last' = [last EXCEPT !.out =
                   BuildInputValuesProcessor(makeEncryptPasswordCallCustom, CarrierName,
                       ShapeName, last.in, InsertBuilderOptions),
                   !.seen = RegistryContents]
    /\ UNCHANGED Registries

CallBuildExecutionBlockForFunction ==
    /\ IsCall("BuildExecutionBlockForFunction")
    /\ last' = [last EXCEPT !.out =
                   BuildExecutionBlockForFunction(last.in.scanBlock, last.in.fieldRefs,
                       last.in.options),
                   !.seen = RegistryContents]
    /\ UNCHANGED Registries

SynthesisFunctions ==
    {"BuildFindArgumentsProcessor", "BuildInputValuesProcessor",
     "BuildExecutionBlockForFunction", "ExtractDestinationFieldRefsFromStruct"}

\* the caller makes the call it has made once more, with the same input
CallAgain ==
    /\ last.fn \in SynthesisFunctions
    /\ last.out # Pending
    /\ last.first = <<>>
    /\ last' = [last EXCEPT !.out = Pending,
                            !.first = <<[out |-> last.out, seen |-> last.seen]>>]
    /\ UNCHANGED Registries

\* the node a constructor returns, or its panic
Outcome(r) == IF "status" \in DOMAIN r THEN r ELSE [status |-> "ok", node |-> r]

CallCall ==
    /\ IsCall("Call")
    /\ last' = [last EXCEPT !.out = Outcome(Call(last.in.fn, last.in.args))]
    /\ UNCHANGED Registries

CallCallEllipsis ==
    /\ IsCall("CallEllipsis")
    /\ last' = [last EXCEPT !.out = Outcome(CallEllipsis(last.in.fn, last.in.args))]
    /\ UNCHANGED Registries

CallDeferCall ==
    /\ IsCall("DeferCall")
    /\ last' = [last EXCEPT !.out = Outcome(DeferCall(last.in.fn, last.in.args))]
    /\ UNCHANGED Registries

CallOr ==
    /\ IsCall("Or")
    /\ last' = [last EXCEPT !.out = Outcome(Or(Head(last.in), Tail(last.in)))]
    /\ UNCHANGED Registries

(***************************************************************************)
(* Specifications                                                          *)
(***************************************************************************)
InitRegistries ==
    /\ makeEncryptPasswordCallCustom = Nil
    /\ registeredGenerators = {"now"}
    /\ regLog = <<>>
    /\ registering = <<>>

NoCall == [fn |-> "none", in |-> <<>>, out |-> [status |-> "ok"], seen |-> <<>>, first |-> <<>>]

FindCalls ==
    {CallOf("Check", c) : c \in OperatorInputs}
    \cup {CallOf("getBuilder", c) : c \in OperatorInputs}
    \cup {CallOf("buildFindArgumentsProcessor", [mf |-> mf, carrier |-> name]) :
             mf \in FocusLeaves \cup BasicLeaves, name \in {CarrierName, <<"S", "u", "b", "A">>}}
    \cup {CallOf("BuildFindArgumentsProcessor", fields) : fields \in FindInputs}

ScanCalls ==
    {CallOf("ExtractDestinationFieldRefsFromStruct", fields) : fields \in ScanInputs}
    \cup {CallOf("BuildInputValuesProcessor", fields) : fields \in WriteInputs}
    \cup {CallOf("BuildExecutionBlockForFunction", in) : in \in ExecutionInputs}

AstCalls ==
    {CallOf(c, in) : c \in {"Call", "CallEllipsis", "DeferCall"}, in \in ConstructorInputs}
    \cup {CallOf("Or", operands) : operands \in OrInputs}

InitReg == InitRegistries /\ last = NoCall
InitAst == InitRegistries /\ last \in AstCalls
RepeatedCalls ==
    UNION {{CallOf(fn, in) : in \in RepeatedInputs[fn]} : fn \in SynthesisFunctions}
InitFrame == InitRegistries /\ last \in RepeatedCalls
InitFind == InitRegistries /\ last \in FindCalls
InitScan == InitRegistries /\ last \in ScanCalls
Init == InitRegistries /\ last \in {NoCall} \cup FindCalls \cup ScanCalls \cup AstCalls

\* two to MaxGoroutines concurrent registration calls, each with its argument
InitRace ==
    /\ makeEncryptPasswordCallCustom = Nil
    /\ registeredGenerators = {"now"}
    /\ regLog = <<>>
    /\ last = NoCall
    /\ \E n \in 2..MaxGoroutines :
           registering \in [1..n -> [fn : EncryptFns \cup {Nil}, pc : {"called"}]]

NextRace ==
    \/ \E g \in DOMAIN registering : RegisterCheck(g)
    \/ \E g \in DOMAIN registering : RegisterStore(g)

NextReg ==
    \/ \E encryptFn \in EncryptFns \cup {Nil} : RegisterSqlFieldEncryptFunction(encryptFn)
    \/ \E name \in GeneratorNames : AddNewGenerator(name)

NextFind ==
    \/ CallCheck
    \/ CallGetBuilder
    \/ CallLeafFindProcessor
    \/ CallBuildFindArgumentsProcessor

NextScan ==
    \/ CallExtractDestinationFieldRefsFromStruct
    \/ CallBuildInputValuesProcessor
    \/ CallBuildExecutionBlockForFunction

NextAst ==
    \/ CallCall
    \/ CallCallEllipsis
    \/ CallDeferCall
    \/ CallOr

\* synthesis calls, made twice, while registrations go on
NextFrame ==
    \/ \E encryptFn \in {"encA", Nil} : RegisterSqlFieldEncryptFunction(encryptFn)
    \/ AddNewGenerator("uuid")
    \/ CallBuildFindArgumentsProcessor
    \/ CallBuildInputValuesProcessor
    \/ CallBuildExecutionBlockForFunction
    \/ CallExtractDestinationFieldRefsFromStruct
    \/ CallAgain

Next == NextReg \/ NextFind \/ NextScan \/ NextAst \/ CallAgain

\* the two registries
SpecReg == InitReg /\ [][NextReg]_vars
\* operator validation and filter synthesis
SpecFind == InitFind /\ [][NextFind]_vars
\* scan path, write path and execution block
SpecScan == InitScan /\ [][NextScan]_vars
\* the constructors of syntax-tree nodes
SpecAst == InitAst /\ [][NextAst]_vars
\* synthesis against the two registries
SpecFrame == InitFrame /\ [][NextFrame]_vars
\* registration calls that run concurrently
SpecRace == InitRace /\ [][NextRace]_vars
Spec == Init /\ [][Next]_vars

(***************************************************************************)
(* Measures of a field tree and of the emitted statements                  *)
(***************************************************************************)
RECURSIVE NumGroups(_)
NumGroups(fields) ==
    IF Len(fields) = 0 THEN 0
    ELSE (IF fields[1].kind = "MetaFields" THEN 1 + NumGroups(fields[1].items) ELSE 0)
         + NumGroups(Tail(fields))

\* the leaves of the tree, in input order
RECURSIVE LeavesOf(_)
LeavesOf(fields) ==
    IF Len(fields) = 0 THEN <<>>
    ELSE (IF fields[1].kind = "MetaFields" THEN LeavesOf(fields[1].items) ELSE <<fields[1]>>)
         \o LeavesOf(Tail(fields))

HasGroup(fields) == \E i \in 1..Len(fields) : fields[i].kind = "MetaFields"
IsUnion(mf) == mf.SourceSql.kind = "SourceSqlSomeColumns"
InFixedSet(c) == \E i \in 1..Len(compareOperators) : compareOperators[i] = c
IsMultiValue(c) == c \in {CompareIn, CompareNotIn}

RECURSIVE Mentions(_, _)
Mentions(expr, target) ==
    \/ expr = target
    \/ /\ expr.e \in {"SelectorExpr", "StarExpr", "UnaryExpr", "Array"}
       /\ Mentions(expr.X, target)
    \/ /\ expr.e = "BinaryExpr"
       /\ (Mentions(expr.X, target) \/ Mentions(expr.Y, target))
    \/ /\ expr.e = "CallExpr"
       /\ (Mentions(expr.Fun, target) \/ \E i \in 1..Len(expr.Args) : Mentions(expr.Args[i], target))

RECURSIVE StmtMentions(_, _)
StmtMentions(stmt, target) ==
    CASE stmt.s = "IfStmt" ->
             \/ Mentions(stmt.Cond, target)
             \/ \E i \in 1..Len(stmt.Body) : StmtMentions(stmt.Body[i], target)
      [] stmt.s = "DeclStmt" ->
             \E i \in 1..Len(stmt.Specs) : Mentions(stmt.Specs[i].Values[1], target)
      [] stmt.s = "AssignStmt" ->
             \E i \in 1..Len(stmt.Rhs) : Mentions(stmt.Rhs[i], target)
      [] OTHER -> Mentions(stmt.Value, target)

BodyMentions(body, target) == \E i \in 1..Len(body) : StmtMentions(body[i], target)

IsGuard(stmt) == stmt.s = "IfStmt"
IsArrayArgument(stmt) == stmt.s = "AppendArgument" /\ stmt.Value.e = "Array"
NumGuards(body) == Cardinality({i \in 1..Len(body) : IsGuard(body[i])})
NumArrayArguments(body) == Cardinality({i \in 1..Len(body) : IsArrayArgument(body[i])})
NumLeaves(fields, P(_)) ==
    Cardinality({i \in 1..Len(LeavesOf(fields)) : P(LeavesOf(fields)[i])})

(***************************************************************************)
(* C1: in a run of RegisterSqlFieldEncryptFunction calls that all pass a   *)
(* non-nil function, the first call succeeds, every later call panics, and *)
(* the hook is the function of the first call.                             *)
(***************************************************************************)
AllNonNilRegs == \A i \in 1..Len(regLog) : regLog[i].fn # Nil

C1_SetOnce ==
    (Len(regLog) >= 1 /\ AllNonNilRegs) =>
        /\ regLog[1].outcome = "ok"
        /\ \A i \in 2..Len(regLog) : regLog[i].outcome = "panic"
        /\ makeEncryptPasswordCallCustom = regLog[1].fn

C1_Witness ==
    /\ Len(regLog) >= 3
    /\ AllNonNilRegs
    /\ regLog[2].fn # regLog[1].fn
    /\ regLog[3].outcome = "panic"
    /\ makeEncryptPasswordCallCustom = regLog[1].fn

(***************************************************************************)
(* C2: a filter synthesis that completes on a non-empty field list returns *)
(* exactly 1 + (number of Groups of the tree) declarations: the given      *)
(* shape name and, per Group, the parent's type name suffixed with the     *)
(* Group's list index, all pairwise distinct.                              *)
(***************************************************************************)
RECURSIVE GeneratedShapeNames(_, _, _)
GeneratedShapeNames(typeName, fields, i) ==
    IF i > Len(fields) THEN <<>>
    ELSE (IF fields[i].kind = "MetaFields"
          THEN <<typeName \o Itoa(i - 1)>>
               \o GeneratedShapeNames(typeName \o Itoa(i - 1), fields[i].items, 1)
          ELSE <<>>)
         \o GeneratedShapeNames(typeName, fields, i + 1)

PairwiseDistinct(seq) ==
    \A i, j \in 1..Len(seq) : i # j => seq[i] # seq[j]

C2_OneShapePerGroup ==
    (Completed("BuildFindArgumentsProcessor") /\ last.in # <<>>) =>
        LET names == <<ShapeName>> \o GeneratedShapeNames(ShapeName, last.in, 1)
        IN  /\ Cardinality(DOMAIN last.out.declarations) = 1 + NumGroups(last.in)
            /\ DOMAIN last.out.declarations = {names[i] : i \in 1..Len(names)}
            /\ PairwiseDistinct(names)

C2_Witness ==
    /\ Completed("BuildFindArgumentsProcessor")
    /\ Len(last.in) = 2
    /\ NumGroups(last.in) = 2
    /\ Len(LeavesOf(last.in)) >= 2
    /\ Cardinality(DOMAIN last.out.declarations) = 3

(***************************************************************************)
(* C3: on a list of leaves the extractor returns two lists of the same     *)
(* length, the total number of names the fields declare, and entry i of    *)
(* the column list is the source-column label of the field whose name      *)
(* produced entry i of the reference list, in input order.                 *)
(***************************************************************************)
RECURSIVE TotalNames(_)
TotalNames(fields) ==
    IF Len(fields) = 0 THEN 0
    ELSE Len(fields[1].Field.Names) + TotalNames(Tail(fields))

\* the position of the field that declares the i-th name of the list
OwnerOf(fields, i) ==
    CHOOSE k \in 1..Len(fields) :
        /\ TotalNames(SubSeq(fields, 1, k - 1)) < i
        /\ i <= TotalNames(SubSeq(fields, 1, k))

C3_ParallelLists ==
    (Done("ExtractDestinationFieldRefsFromStruct") /\ ~HasGroup(last.in)) =>
        /\ last.out.status = "ok"
        /\ Len(last.out.destinationStructureFields) = TotalNames(last.in)
        /\ Len(last.out.sourceTableColumnNames) = TotalNames(last.in)
        /\ \A i \in 1..TotalNames(last.in) :
               LET k == OwnerOf(last.in, i)
                   n == i - TotalNames(SubSeq(last.in, 1, k - 1))
               IN  /\ last.out.sourceTableColumnNames[i] = sqlExpr(last.in[k].SourceSql)
                   /\ last.out.destinationStructureFields[i] =
                          Ref(SimpleSelector(RowName, last.in[k].Field.Names[n]))

C3_Witness ==
    /\ Completed("ExtractDestinationFieldRefsFromStruct")
    /\ Len(last.in) = 2
    /\ Len(last.in[1].Field.Names) = 0
    /\ Len(last.in[2].Field.Names) = 2
    /\ IsUnion(last.in[2])
    /\ Len(last.out.destinationStructureFields) = 2
    /\ Len(last.out.sourceTableColumnNames) = 2

(***************************************************************************)
(* C4: a leaf with a constant override never reads the option carrier:     *)
(* whatever its source shape and operator, no statement emitted for it     *)
(* mentions carrier.<fieldName>.                                           *)
(***************************************************************************)
C4_ConstantNeverReadsCarrier ==
    (Completed("buildFindArgumentsProcessor") /\ last.in.mf.Constant # <<>>) =>
        ~BodyMentions(last.out.functionBody,
                      SimpleSelector(last.in.carrier, last.in.mf.Field.Names[1]))

(***************************************************************************)
(* C5: a leaf with a multi-value operator (in, not-in) is never wrapped in *)
(* a guard: its statements stand unconditionally at the top level of the   *)
(* statement sequence, also when its field type is a pointer.              *)
(***************************************************************************)
HasMultOperator(mf) == IsMultiValue(mf.CompareOperator)

C5_MultiValueUnguarded ==
    /\ (Completed("buildFindArgumentsProcessor") /\ HasMultOperator(last.in.mf)) =>
           /\ Len(last.out.functionBody) >= 1
           /\ NumGuards(last.out.functionBody) = 0
           /\ NumArrayArguments(last.out.functionBody) = 1
    /\ Completed("BuildFindArgumentsProcessor") =>
           /\ NumArrayArguments(last.out.body) = NumLeaves(last.in, HasMultOperator)
           /\ \A i \in 1..Len(last.out.body) :
                  IsGuard(last.out.body[i]) =>
                      NumArrayArguments(last.out.body[i].Body) = 0

C5_Witness ==
    /\ Completed("buildFindArgumentsProcessor")
    /\ HasMultOperator(last.in.mf)
    /\ IsStarExpr(last.in.mf.Field.Type)
    /\ NumArrayArguments(last.out.functionBody) = 1

(***************************************************************************)
(* C6: filter synthesis aborts, returning neither statements nor           *)
(* declarations, whenever a union-of-columns leaf carries in or not-in, at *)
(* the top level and inside a Group; under every other operator of the     *)
(* fixed set the union leaf is accepted.                                   *)
(***************************************************************************)
IsUnionMult(mf) == IsUnion(mf) /\ IsMultiValue(mf.CompareOperator)
IsUnionOther(mf) ==
    /\ IsUnion(mf)
    /\ InFixedSet(mf.CompareOperator)
    /\ ~IsMultiValue(mf.CompareOperator)
    /\ Len(mf.Field.Names) = 1
NoOutput(out) == DOMAIN out \cap {"body", "functionBody", "declarations", "optionsFuncField"} = {}

C6_UnionRejectsMultiValue ==
    /\ (Done("buildFindArgumentsProcessor") /\ IsUnionMult(last.in.mf)) =>
           (last.out.status = "panic" /\ NoOutput(last.out))
    /\ (Done("buildFindArgumentsProcessor") /\ IsUnionOther(last.in.mf)) =>
           last.out.status = "ok"
    /\ (Done("BuildFindArgumentsProcessor") /\ NumLeaves(last.in, IsUnionMult) > 0) =>
           (last.out.status = "panic" /\ NoOutput(last.out))
    /\ (/\ Done("BuildFindArgumentsProcessor")
        /\ \E f \in FocusLeaves :
               IsUnionOther(f) /\ last.in \in {<<f>>, <<MetaFields(<<f>>)>>}) =>
           last.out.status = "ok"

C6_Witness ==
    /\ Aborted("BuildFindArgumentsProcessor")
    /\ Len(last.in) = 1
    /\ last.in[1].kind = "MetaFields"
    /\ Len(last.in[1].items) = 1
    /\ last.in[1].items[1].kind = "MetaField"
    /\ IsUnionMult(last.in[1].items[1])
    /\ last.in[1].items[1].CompareOperator = CompareNotIn

(***************************************************************************)
(* C7: Check turns the empty operator into equal, leaves an operator of    *)
(* the fixed set of twelve unchanged and panics on any other; whenever it  *)
(* returns the operator is in the fixed set, and getBuilder returns only   *)
(* the template of that validated operator, panicking outside the set.     *)
(***************************************************************************)
C7_OperatorValidation ==
    /\ Len(compareOperators) = 12
    /\ Done("Check") =>
           /\ last.in = "" => (last.out.status = "ok" /\ last.out.c = CompareEqual)
           /\ InFixedSet(last.in) => (last.out.status = "ok" /\ last.out.c = last.in)
           /\ (last.in # "" /\ ~InFixedSet(last.in)) => last.out.status = "panic"
           /\ last.out.status = "ok" => InFixedSet(last.out.c)
    /\ Done("getBuilder") =>
           /\ (last.in # "" /\ ~InFixedSet(last.in)) => last.out.status = "panic"
           /\ last.out.status = "ok" =>
                  \E i \in 1..Len(compareOperators) :
                      /\ compareOperators[i] = (IF last.in = "" THEN CompareEqual ELSE last.in)
                      /\ last.out.template = knownOperators[compareOperators[i]]

C7_Witness ==
    /\ Completed("Check")
    /\ last.in = ""
    /\ last.out.c = CompareEqual

(***************************************************************************)
(* C8: the scan path and the write path accept leaves only: with a Group   *)
(* at any position of the list, an empty one and one in last position      *)
(* included, both abort and return nothing, not even the output of the     *)
(* fields that precede the Group.                                          *)
(***************************************************************************)
NoScanOutput(out) ==
    DOMAIN out \cap {"destinationStructureFields", "sourceTableColumnNames", "functionBody",
                     "declarations", "optionsFuncField"} = {}

C8_LeavesOnly ==
    ((Done("ExtractDestinationFieldRefsFromStruct") \/ Done("BuildInputValuesProcessor"))
        /\ HasGroup(last.in)) =>
        (last.out.status = "panic" /\ NoScanOutput(last.out))

C8_Witness ==
    /\ Aborted("ExtractDestinationFieldRefsFromStruct")
    /\ Len(last.in) = 2
    /\ last.in[1].kind = "MetaField"
    /\ Len(last.in[1].Field.Names) = 1
    /\ last.in[2] = MetaFields(<<>>)

(***************************************************************************)
(* C9: a leaf that is neither multi-value nor constant-valued, ordinary or *)
(* union: with a pointer type it yields exactly one if-statement, on       *)
(* carrier.<field> != nil, whose body holds the predicate and argument     *)
(* statements; with any other type they are emitted with no guard.         *)
(***************************************************************************)
IsPlainLeaf(mf) == ~IsMultiValue(mf.CompareOperator) /\ mf.Constant = <<>>
IsGuardedLeaf(mf) == IsPlainLeaf(mf) /\ IsStarExpr(mf.Field.Type)
IsUnionWithConstant(mf) == IsUnion(mf) /\ mf.Constant # <<>>
IsPredicateStmt(stmt) == stmt.s \in {"AppendFragment", "AppendArgument"}

C9_PointerGuard ==
    /\ (Completed("buildFindArgumentsProcessor") /\ IsPlainLeaf(last.in.mf)) =>
           LET body == last.out.functionBody
           IN  IF IsStarExpr(last.in.mf.Field.Type)
               THEN /\ Len(body) = 1
                    /\ IsGuard(body[1])
                    /\ body[1].Cond =
                           NotEqual(SimpleSelector(last.in.carrier, last.in.mf.Field.Names[1]),
                                    NilExpr)
                    /\ Len(body[1].Body) >= 1
                    /\ \A i \in 1..Len(body[1].Body) : IsPredicateStmt(body[1].Body[i])
               ELSE /\ Len(body) >= 1
                    /\ \A i \in 1..Len(body) : IsPredicateStmt(body[i])
    /\ (Completed("BuildFindArgumentsProcessor")
            /\ NumLeaves(last.in, IsUnionWithConstant) = 0) =>
           NumGuards(last.out.body) = NumLeaves(last.in, IsGuardedLeaf)

C9_Witness ==
    /\ Completed("buildFindArgumentsProcessor")
    /\ IsGuardedLeaf(last.in.mf)
    /\ IsUnion(last.in.mf)
    /\ last.in.carrier # CarrierName
    /\ IsGuard(last.out.functionBody[1])

(***************************************************************************)
(* C10: a Group with zero children is permitted and contributes no         *)
(* predicate: synthesis does not fail on it and the generated code appends *)
(* no fragment to the parent's accumulator on behalf of that Group.        *)
(***************************************************************************)
\* the statement appends to the parent's accumulator what the accumulator sub holds
AppendsFrom(stmt, parent, sub) ==
    /\ stmt.s = "AssignStmt"
    /\ stmt.Lhs = <<parent>>
    /\ \E k \in 1..Len(stmt.Rhs) : Mentions(stmt.Rhs[k], Ident(sub))

OnlyEmptyGroups(fields) ==
    /\ Len(fields) >= 1
    /\ \A i \in 1..Len(fields) : fields[i] = MetaFields(<<>>)

C10_EmptyGroupNoFragment ==
    (Done("BuildFindArgumentsProcessor") /\ OnlyEmptyGroups(last.in)) =>
        /\ last.out.status = "ok"
        /\ \A i \in 1..Len(last.in) : \A k \in 1..Len(last.out.body) :
               ~AppendsFrom(last.out.body[k], FindBuilderOptions.variableForColumnExpr,
                            FindBuilderOptions.variableForColumnExpr \o Itoa(i - 1))

(***************************************************************************)
(* C11: filter synthesis handles nested grouping: on a field tree in which *)
(* a Group directly contains another Group (all leaves being acceptable on *)
(* their own) it completes and produces one option-shape entry per         *)
(* recursion level.                                                        *)
(***************************************************************************)
RECURSIVE HasNestedGroup(_)
HasNestedGroup(fields) ==
    \E i \in 1..Len(fields) :
        /\ fields[i].kind = "MetaFields"
        /\ \/ HasGroup(fields[i].items)
           \/ HasNestedGroup(fields[i].items)

AcceptableLeaf(mf) ==
    ~IsPanic(buildFindArgumentsProcessor(mf, CarrierName, FindBuilderOptions))

C11_NestedGroupsHandled ==
    (/\ Done("BuildFindArgumentsProcessor")
     /\ HasNestedGroup(last.in)
     /\ NumLeaves(last.in, AcceptableLeaf) = Len(LeavesOf(last.in))) =>
        /\ last.out.status = "ok"
        /\ Cardinality(DOMAIN last.out.declarations) = 1 + NumGroups(last.in)

(***************************************************************************)
(* Placeholder numbering.  The generated code numbers a placeholder by the *)
(* arguments bound so far: the number of a predicate is one more than the  *)
(* number of values appended to the argument accumulator before it (every  *)
(* guard taken).                                                           *)
(***************************************************************************)
RECURSIVE Flatten(_)
Flatten(body) ==
    IF Len(body) = 0 THEN <<>>
    ELSE (IF IsGuard(body[1]) THEN Flatten(body[1].Body) ELSE <<body[1]>>)
         \o Flatten(Tail(body))

NumArguments(stmts, argAcc) ==
    Cardinality({i \in 1..Len(stmts) : stmts[i].s = "AppendArgument" /\ stmts[i].To = argAcc})

IsNumberedPredicate(stmt, exprAcc) ==
    stmt.s = "AppendFragment" /\ stmt.To = exprAcc /\ stmt.Value = Placeholder

RECURSIVE NumbersFrom(_, _, _, _)
NumbersFrom(stmts, i, exprAcc, argAcc) ==
    IF i > Len(stmts) THEN <<>>
    ELSE (IF IsNumberedPredicate(stmts[i], exprAcc)
          THEN <<NumArguments(SubSeq(stmts, 1, i - 1), argAcc) + 1>>
          ELSE <<>>)
         \o NumbersFrom(stmts, i + 1, exprAcc, argAcc)

\* the placeholder numbers of the predicates appended to the parent's accumulator
PlaceholderNumbers(body) ==
    NumbersFrom(Flatten(body), 1, FindBuilderOptions.variableForColumnExpr,
                FindBuilderOptions.variableForColumnValues)

FindBody(fields) ==
    BuildFindArgumentsProcessor(CarrierName, ShapeName, fields, FindBuilderOptions).body

\* one Group, at the top level, among leaves
OneTopLevelGroup(fields) ==
    /\ NumGroups(fields) = 1
    /\ HasGroup(fields)
GroupPos(fields) == CHOOSE p \in 1..Len(fields) : fields[p].kind = "MetaFields"
BeforeGroup(fields) == SubSeq(fields, 1, GroupPos(fields) - 1)
AfterGroup(fields) == SubSeq(fields, GroupPos(fields) + 1, Len(fields))
RemoveAt(seq, k) == SubSeq(seq, 1, k - 1) \o SubSeq(seq, k + 1, Len(seq))

(***************************************************************************)
(* C12: recursing into a Group does not alter the parent's numbering: the  *)
(* predicates before the Group keep their numbers and the predicates after *)
(* it are numbered as if the Group had been one ordinary predicate, for    *)
(* every number of children of the Group.                                  *)
(***************************************************************************)
C12_GroupNumbersAsOnePredicate ==
    (Completed("BuildFindArgumentsProcessor") /\ OneTopLevelGroup(last.in)) =>
        LET pre == BeforeGroup(last.in)
            post == AfterGroup(last.in)
            asOne == PlaceholderNumbers(FindBody(pre \o <<LeafEqual>> \o post))
        IN  PlaceholderNumbers(last.out.body) =
                RemoveAt(asOne, Len(PlaceholderNumbers(FindBody(pre))) + 1)

(***************************************************************************)
(* C12 as amended: the predicates before the Group keep their numbers and  *)
(* the predicates after it are numbered past every argument the children   *)
(* of the Group bind: their numbers are those of the list without the      *)
(* Group plus the number of arguments of the children.                     *)
(***************************************************************************)
GroupArguments(fields) ==
    NumArguments(Flatten(FindBody(fields[GroupPos(fields)].items)),
                 FindBuilderOptions.variableForColumnValues)

C12_NumberingRunsThroughGroup ==
    (Completed("BuildFindArgumentsProcessor") /\ OneTopLevelGroup(last.in)) =>
        LET pre == BeforeGroup(last.in)
            post == AfterGroup(last.in)
            numbers == PlaceholderNumbers(last.out.body)
            without == PlaceholderNumbers(FindBody(pre \o post))
            nPre == Len(PlaceholderNumbers(FindBody(pre)))
        IN  /\ Len(numbers) = Len(without)
            /\ \A j \in 1..Len(numbers) :
                   numbers[j] = IF j <= nPre THEN without[j]
                                ELSE without[j] + GroupArguments(last.in)

C12_Witness ==
    /\ Completed("BuildFindArgumentsProcessor")
    /\ Len(last.in) = 3
    /\ OneTopLevelGroup(last.in)
    /\ GroupPos(last.in) = 2
    /\ Len(last.in[2].items) = 2
    /\ GroupArguments(last.in) = 2
    /\ PlaceholderNumbers(last.out.body) = <<1, 4>>

(***************************************************************************)
(* Measures of the write path                                              *)
(***************************************************************************)
CarrierField(field) == SimpleSelector(CarrierName, field.Field.Names[1])
IsOmitted(field) == makeValuePicker(Tail(field.Tag), CarrierField(field)).isOmittedField
IsEncrypted(field) == arrayFind(field.Tag, tagEncrypt) > 0

RECURSIVE NonOmittedFields(_)
NonOmittedFields(fields) ==
    IF Len(fields) = 0 THEN <<>>
    ELSE (IF IsOmitted(fields[1]) THEN <<>> ELSE <<fields[1].Field>>)
         \o NonOmittedFields(Tail(fields))

\* the value statement of one field, inside its guard when it has one
EmissionOf(stmt) == IF IsGuard(stmt) THEN stmt.Body[1] ELSE stmt
DeclaredFields(out) ==
    IF ShapeName \in DOMAIN out.declarations THEN out.declarations[ShapeName].Fields
    ELSE <<>>

(***************************************************************************)
(* C13: on every list of leaves on which the write-path synthesis          *)
(* completes, the statements stand in input field order, one guarded or    *)
(* unguarded emission per field, omitted fields included, and the declared *)
(* shape lists exactly the non-omitted fields in input order.              *)
(***************************************************************************)
C13_WriteOrder ==
    Completed("BuildInputValuesProcessor") =>
        /\ Len(last.out.functionBody) = Len(last.in)
        /\ \A i \in 1..Len(last.in) :
               LET stmt == last.out.functionBody[i]
                   field == last.in[i]
               IN  /\ IsGuard(stmt) <=>
                          (~IsOmitted(field)
                               /\ (IsStarExpr(field.Field.Type) \/ field.IsMaybeType))
                   /\ IsGuard(stmt) =>
                          (Len(stmt.Body) = 1 /\ Mentions(stmt.Cond, CarrierField(field)))
                   /\ EmissionOf(stmt).s = "AppendValue"
                   /\ EmissionOf(stmt).Column = sqlExpr(field.SourceSql)
                   /\ Mentions(EmissionOf(stmt).Value, CarrierField(field)) <=> ~IsOmitted(field)
        /\ DeclaredFields(last.out) = NonOmittedFields(last.in)

C13_Witness ==
    /\ Completed("BuildInputValuesProcessor")
    /\ last.in = <<WritePointer, WriteGenerated, WritePlain>>
    /\ IsGuard(last.out.functionBody[1])
    /\ ~IsGuard(last.out.functionBody[3])
    /\ DeclaredFields(last.out) = <<WritePointer.Field, WritePlain.Field>>

(***************************************************************************)
(* C14: when every field is write-omitted (the empty list included) no     *)
(* shape is declared and no formal parameter is returned, while the value  *)
(* statements of the omitted fields are still emitted; with at least one   *)
(* field not omitted exactly one shape and one formal parameter are        *)
(* returned.                                                               *)
(***************************************************************************)
C14_ShapeOnlyIfNeeded ==
    Completed("BuildInputValuesProcessor") =>
        IF NonOmittedFields(last.in) = <<>>
        THEN /\ DOMAIN last.out.declarations = {}
             /\ last.out.optionsFuncField = <<>>
             /\ Len(last.out.functionBody) = Len(last.in)
        ELSE /\ DOMAIN last.out.declarations = {ShapeName}
             /\ last.out.optionsFuncField = <<AstField(<<CarrierName>>, Ident(ShapeName))>>

C14_Witness ==
    /\ Completed("BuildInputValuesProcessor")
    /\ Len(last.in) >= 2
    /\ NonOmittedFields(last.in) = <<>>
    /\ DOMAIN last.out.declarations = {}
    /\ Len(last.out.functionBody) = Len(last.in)

(***************************************************************************)
(* C15: the argument of the encryption call of an encrypted field is the   *)
(* raw, unwrapped field value: *carrier.F for a pointer field,             *)
(* carrier.F.value for an optional-wrapper field, carrier.F otherwise, and *)
(* never an address-of expression.                                         *)
(***************************************************************************)
RawValue(field) ==
    IF IsStarExpr(field.Field.Type) THEN Star(CarrierField(field))
    ELSE IF field.IsMaybeType THEN Selector(CarrierField(field), <<"v", "a", "l", "u", "e">>)
         ELSE CarrierField(field)

C15_EncryptsRawValue ==
    Completed("BuildInputValuesProcessor") =>
        \A i \in 1..Len(last.in) :
            (IsEncrypted(last.in[i]) /\ ~IsOmitted(last.in[i])) =>
                LET v == EmissionOf(last.out.functionBody[i]).Value
                IN  /\ v.e = "CallExpr"
                    /\ v.Args = <<RawValue(last.in[i])>>

(***************************************************************************)
(* C16: the execution block is exactly three statements, in this order,    *)
(* under both scan wrappers: the error-checked query call over the         *)
(* SQL-text and argument sources (wrapped when a wrapper is configured),   *)
(* the deferred release of the cursor, and the scan wrapper applied to the *)
(* declaration of the destination variable followed by the error-checked   *)
(* row-scan call over the destination references.  The release precedes    *)
(* every scan statement and only the third statement varies with the       *)
(* wrapper.  The block is built exactly when there is at least one         *)
(* destination reference and neither the scan wrapper nor a configured     *)
(* wrapper is nil.                                                         *)
(***************************************************************************)
ErrIdent == Ident(<<"e", "r", "r">>)
IsErrChecked(stmt) ==
    /\ stmt.s = "IfStmt"
    /\ stmt.Init.s = "AssignStmt"
    /\ Len(stmt.Init.Rhs) = 1
    /\ stmt.Init.Lhs[Len(stmt.Init.Lhs)] = ErrIdent
    /\ stmt.Cond = NotEqual(ErrIdent, NilExpr)
    /\ stmt.Body = <<ReturnEmpty>>

\* the expression a source stands for: the variable, under its wrapper if it has one
SourceOf(v, expr) ==
    IF v.wrapper = "none" THEN expr = Ident(v.variableName)
    ELSE /\ expr.e \in {"StarExpr", "UnaryExpr"}
         /\ expr.X = Ident(v.variableName)
         /\ (v.wrapper = "Star" <=> expr.e = "StarExpr")

OtherWrapper(scanBlock) ==
    IF scanBlock = WrapperFindOne THEN WrapperFindAll ELSE WrapperFindOne

C16_ExecutionBlockOrder ==
    /\ Done("BuildExecutionBlockForFunction") =>
           (last.out.status = "ok" <=>
               /\ Len(last.in.fieldRefs) >= 1
               /\ last.in.scanBlock # Nil
               /\ last.in.options.variableForSqlText.wrapper # Nil
               /\ last.in.options.variableForArguments.wrapper # Nil)
    /\ Completed("BuildExecutionBlockForFunction") =>
           LET o == last.out.stmts
               in == last.in
               other == BuildExecutionBlockForFunction(OtherWrapper(in.scanBlock),
                            in.fieldRefs, in.options).stmts
           IN  /\ Len(o) = 3
               /\ IsErrChecked(o[1])
               /\ o[1].Init.Lhs = <<Ident(<<"r", "o", "w", "s">>), ErrIdent>>
               /\ o[1].Init.Rhs[1].Fun = DbQueryFn.FunctionName
               /\ o[1].Init.Rhs[1].Ellipsis
               /\ Len(o[1].Init.Rhs[1].Args) = 2
               /\ SourceOf(in.options.variableForSqlText, o[1].Init.Rhs[1].Args[1])
               /\ SourceOf(in.options.variableForArguments, o[1].Init.Rhs[1].Args[2])
               /\ o[2].s = "DeferStmt"
               /\ o[2].Call.Fun = RowsCloseFn.FunctionName
               /\ o[2].Call.Args = <<>>
               /\ o[3].s = (IF in.scanBlock = WrapperFindOne THEN "ScanOnce" ELSE "ScanAll")
               /\ Len(o[3].Body) = 2
               /\ o[3].Body[1] =
                      Var(<<VariableType(ScanDestVariable, Ident(in.options.rowStructTypeName))>>)
               /\ IsErrChecked(o[3].Body[2])
               /\ o[3].Body[2].Init.Lhs = <<ErrIdent>>
               /\ o[3].Body[2].Init.Rhs[1].Fun = RowsScanFn.FunctionName
               /\ o[3].Body[2].Init.Rhs[1].Args = in.fieldRefs
               /\ SubSeq(o, 1, 2) = SubSeq(other, 1, 2)
               /\ o[3].Body = other[3].Body
               /\ o[3] # other[3]

C16_Witness ==
    /\ Completed("BuildExecutionBlockForFunction")
    /\ last.in.scanBlock = WrapperFindAll
    /\ Len(last.in.fieldRefs) = 2
    /\ last.in.options.variableForSqlText.wrapper = "Star"
    /\ last.in.options.variableForArguments.wrapper = "Ref"
    /\ last.out.stmts[2].s = "DeferStmt"
    /\ last.out.stmts[3].s = "ScanAll"

(***************************************************************************)
(* C17: for a descriptor with minimum m and extensibility flag e, Call,    *)
(* CallEllipsis and DeferCall with a arguments succeed if and only if      *)
(* a >= m and (e or a = m); otherwise they panic and build no node.        *)
(***************************************************************************)
IsConstructor(fn) == fn \in {"Call", "CallEllipsis", "DeferCall"}
BuiltCall(out) == IF last.fn = "DeferCall" THEN out.node.Call ELSE out.node

C17_ArgsCount ==
    (IsConstructor(last.fn) /\ last.out # Pending) =>
        LET m == last.in.fn.MinimumNumberOfArguments
            e == last.in.fn.ExtensibleNumberOfArguments
            a == Len(last.in.args)
        IN  /\ last.out.status = "ok" <=> (a >= m /\ (e \/ a = m))
            /\ last.out.status = "ok" =>
                   /\ BuiltCall(last.out).e = "CallExpr"
                   /\ BuiltCall(last.out).Fun = last.in.fn.FunctionName
                   /\ BuiltCall(last.out).Args = last.in.args
                   /\ BuiltCall(last.out).Ellipsis <=> last.fn = "CallEllipsis"
                   /\ last.fn = "DeferCall" <=>
                          ("s" \in DOMAIN last.out.node /\ last.out.node.s = "DeferStmt")
            /\ last.out.status # "ok" =>
                   (last.out.status = "panic" /\ "node" \notin DOMAIN last.out)

C17_Witness ==
    /\ Aborted("DeferCall")
    /\ ~last.in.fn.ExtensibleNumberOfArguments
    /\ last.in.fn.MinimumNumberOfArguments = 1
    /\ Len(last.in.args) = 2
    /\ "node" \notin DOMAIN last.out

(***************************************************************************)
(* C18: Or builds a pure disjunction: for operands e1..en, n >= 1, every   *)
(* binary operator of Or(e1, ..., en) is || and its leaves are e1..en in   *)
(* order, so that it is true exactly when at least one operand is true.    *)
(***************************************************************************)
RECURSIVE OperatorsOf(_)
OperatorsOf(expr) ==
    IF expr.e = "BinaryExpr" THEN OperatorsOf(expr.X) \cup {expr.Op} \cup OperatorsOf(expr.Y)
    ELSE {}

RECURSIVE OperandsOf(_)
OperandsOf(expr) ==
    IF expr.e = "BinaryExpr" THEN OperandsOf(expr.X) \o OperandsOf(expr.Y)
    ELSE <<expr>>

\* the value of a condition over boolean variables, under the valuation val
RECURSIVE Holds(_, _)
Holds(expr, val) ==
    IF expr.e = "BinaryExpr"
    THEN IF expr.Op = "||" THEN Holds(expr.X, val) \/ Holds(expr.Y, val)
         ELSE Holds(expr.X, val) /\ Holds(expr.Y, val)
    ELSE val[expr]

C18_OrIsDisjunction ==
    Done("Or") =>
        /\ last.out.status = "ok"
        /\ OperatorsOf(last.out.node) \subseteq {"||"}
        /\ OperandsOf(last.out.node) = last.in
        /\ \A val \in [Atoms -> BOOLEAN] :
               Holds(last.out.node, val) <=> \E i \in 1..Len(last.in) : val[last.in[i]]

(***************************************************************************)
(* C19: synthesis is side-effect-free on the two registries: no call of    *)
(* BuildFindArgumentsProcessor, BuildInputValuesProcessor,                 *)
(* BuildExecutionBlockForFunction or ExtractDestinationFieldRefsFromStruct,*)
(* completing or aborting, changes the encryption hook or the generator    *)
(* registry, and two calls with the same input under the same registry     *)
(* contents return the same result.                                        *)
(***************************************************************************)
IsSynthesisStep ==
    /\ last.fn \in SynthesisFunctions
    /\ last.out = Pending
    /\ last'.out # Pending

SameResultTwice ==
    (/\ last.fn \in SynthesisFunctions
     /\ last.out # Pending
     /\ last.first # <<>>
     /\ last.first[1].seen = last.seen) =>
        last.out = last.first[1].out

FlagChars == {" ", "+", "-", "#", ".", "*"} \cup {Digits[i] : i \in 1..Len(Digits)}

RECURSIVE VerbAt(_, _)
VerbAt(t, j) == IF j <= Len(t) /\ t[j] \in FlagChars THEN VerbAt(t, j + 1) ELSE j

RECURSIVE DirectivesFrom(_, _)
DirectivesFrom(t, i) ==
    IF i > Len(t) THEN <<>>
    ELSE IF t[i] # "%" THEN DirectivesFrom(t, i + 1)
    ELSE LET j == VerbAt(t, i + 1)
         IN  <<SubSeq(t, i, IF j <= Len(t) THEN j ELSE Len(t))>> \o DirectivesFrom(t, j + 1)

Directives(t) == DirectivesFrom(t, 1)
\* %% is the escape of a literal percent sign; every other directive takes an operand
TakesOperand(d) == d # <<"%", "%">>

(***************************************************************************)
(* C20: the template of every Regular operator holds exactly two           *)
(* substitution placeholders, %s for the column expression and %s for the  *)
(* value expression, and no other directive.                               *)
(***************************************************************************)
C20_RegularTwoPlaceholders ==
    (Completed("getBuilder") /\ last.out.template.shape = "opRegular") =>
        SelectSeq(Directives(last.out.template.operator), TakesOperand)
            = <<<<"%", "s">>, <<"%", "s">>>>

(***************************************************************************)
(* C21: is-null is routed through the Inline shape and its template holds  *)
(* exactly one placeholder, the one of the column expression: no value     *)
(* placeholder, and the leaf built on it binds no argument.                *)
(***************************************************************************)
IsNullLeaf(mf) ==
    /\ mf.CompareOperator = CompareIsNull
    /\ ~IsUnion(mf)
    /\ mf.Constant = <<>>

C21_IsNullOnePlaceholder ==
    /\ (Done("getBuilder") /\ last.in = CompareIsNull) =>
           /\ last.out.status = "ok"
           /\ last.out.template.shape = "opInline"
           /\ SelectSeq(Directives(last.out.template.operator), TakesOperand)
                  = <<<<"%", "s">>>>
    /\ (Completed("buildFindArgumentsProcessor") /\ IsNullLeaf(last.in.mf)) =>
           NumArguments(Flatten(last.out.functionBody),
                        FindBuilderOptions.variableForColumnValues) = 0

(***************************************************************************)
(* The variables and the option-shapes a completed filter synthesis        *)
(* declares for its Groups: every Group opens with one declaration of its  *)
(* carrier variable and its fragment accumulator, and is a field of its    *)
(* parent's option-shape typed with its own option-shape.                  *)
(***************************************************************************)
GroupDeclarations(body) == SelectSeq(Flatten(body), LAMBDA st : st.s = "DeclStmt")
CarriersDeclared(body) ==
    [k \in 1..Len(GroupDeclarations(body)) |-> GroupDeclarations(body)[k].Specs[1].Names[1]]
AccumulatorsDeclared(body) ==
    [k \in 1..Len(GroupDeclarations(body)) |-> GroupDeclarations(body)[k].Specs[2].Names[1]]
\* a field of an option-shape is a Group's when its type is a declared option-shape
IsGroupField(field, declarations) ==
    field.Type.e = "Ident" /\ field.Type.Name \in DOMAIN declarations
GroupFields(out, shape) ==
    SelectSeq(out.declarations[shape].Fields,
              LAMBDA field : IsGroupField(field, out.declarations))
ShapesOfGroups(out, shape) ==
    [k \in 1..Len(GroupFields(out, shape)) |-> GroupFields(out, shape)[k].Type.Name]

(***************************************************************************)
(* C22: across one filter synthesis the fragment accumulators declared for *)
(* the Groups are pairwise distinct and differ from the accumulator of the *)
(* level above, and so do the option-shape names: one accumulator and one  *)
(* option-shape per Group, none declared twice.                            *)
(***************************************************************************)
C22_FreshNamesPerGroup ==
    Completed("BuildFindArgumentsProcessor") =>
        LET accs == AccumulatorsDeclared(last.out.body)
            shapes == ShapesOfGroups(last.out, ShapeName)
        IN  /\ Len(accs) = NumGroups(last.in)
            /\ PairwiseDistinct(accs)
            /\ \A k \in 1..Len(accs) : accs[k] # FindBuilderOptions.variableForColumnExpr
            /\ Len(shapes) = NumGroups(last.in)
            /\ PairwiseDistinct(shapes)
            /\ \A k \in 1..Len(shapes) : shapes[k] # ShapeName
            /\ Cardinality(DOMAIN last.out.declarations) = 1 + Len(shapes)

C22_Witness ==
    /\ Completed("BuildFindArgumentsProcessor")
    /\ Len(last.in) = 3
    /\ NumGroups(last.in) = 2
    /\ last.in[1].kind = "MetaField"
    /\ AccumulatorsDeclared(last.out.body)
           = <<FindBuilderOptions.variableForColumnExpr \o <<"1">>,
               FindBuilderOptions.variableForColumnExpr \o <<"2">>>>
    /\ ShapesOfGroups(last.out, ShapeName) = <<ShapeName \o <<"1">>, ShapeName \o <<"2">>>>

(***************************************************************************)
(* The statements of one top-level element.  The number of statements an   *)
(* element emits does not depend on its position, so the body of a         *)
(* completed synthesis divides into one segment per element.               *)
(***************************************************************************)
SegmentLen(f) == Len(FindBody(<<f>>))

RECURSIVE SegmentStart(_, _)
SegmentStart(fields, i) ==
    IF i = 1 THEN 1 ELSE SegmentStart(fields, i - 1) + SegmentLen(fields[i - 1])

Segment(body, fields, i) ==
    SubSeq(body, SegmentStart(fields, i), SegmentStart(fields, i + 1) - 1)

\* the statement appends a fragment to the accumulator acc
AppendsTo(stmt, acc) ==
    \/ stmt.s = "AppendFragment" /\ stmt.To = acc
    \/ stmt.s = "AssignStmt" /\ stmt.Lhs = <<acc>>
NumAppendsTo(stmts, acc) ==
    Cardinality({k \in 1..Len(stmts) : AppendsTo(stmts[k], acc)})

\* acc = append(acc, "(" + strings.Join(sub, " or ") + ")")
IsJoinedAppend(stmt, acc, sub) ==
    /\ stmt.s = "AssignStmt"
    /\ stmt.Lhs = <<acc>>
    /\ stmt.Rhs =
           <<[e |-> "CallExpr", Fun |-> Ident(<<"a", "p", "p", "e", "n", "d">>),
              Ellipsis |-> FALSE,
              Args |-> <<Ident(acc),
                         Binary(Binary(StringConstant(<<"(">>),
                                       [e |-> "CallExpr", Fun |-> StringsJoinFn.FunctionName,
                                        Ellipsis |-> FALSE,
                                        Args |-> <<Ident(sub),
                                                   StringConstant(<<" ", "o", "r", " ">>)>>],
                                       "+"),
                                StringConstant(<<")">>), "+")>>]>>

(***************************************************************************)
(* C23: the filter statements follow input order.  The body is the         *)
(* segments of the top-level elements in input order; the segment of a     *)
(* leaf is the statements of that leaf; the segment of a Group is its      *)
(* variable declaration, then the statements of its children in their      *)
(* order, then one statement that appends "(" + join(child accumulator,    *)
(* " or ") + ")" to the parent's accumulator, which is the only statement  *)
(* of the segment that appends to the parent's accumulator.                *)
(***************************************************************************)
C23_StatementsFollowInputOrder ==
    Completed("BuildFindArgumentsProcessor") =>
        LET fields == last.in
            body == last.out.body
            parent == FindBuilderOptions.variableForColumnExpr
        IN  /\ Len(body) = SegmentStart(fields, Len(fields) + 1) - 1
            /\ \A i \in 1..Len(fields) :
                   LET seg == Segment(body, fields, i)
                       sub == parent \o Itoa(i - 1)
                   IN  IF fields[i].kind = "MetaField"
                       THEN seg = buildFindArgumentsProcessor(fields[i], CarrierName,
                                      FindBuilderOptions).functionBody
                       ELSE /\ Len(seg) >= 2
                            /\ seg[1].s = "DeclStmt"
                            /\ seg[1].Specs[2].Names = <<sub>>
                            /\ SubSeq(seg, 2, Len(seg) - 1) =
                                   BuildFindArgumentsProcessor(seg[1].Specs[1].Names[1],
                                       ShapeName, fields[i].items,
                                       subOptions(FindBuilderOptions, sub)).body
                            /\ IsJoinedAppend(seg[Len(seg)], parent, sub)
                            /\ NumAppendsTo(Flatten(seg), parent) = 1

C23_Witness ==
    /\ Completed("BuildFindArgumentsProcessor")
    /\ Len(last.in) = 3
    /\ last.in[1].kind = "MetaField"
    /\ last.in[2].kind = "MetaFields"
    /\ Len(last.in[2].items) = 2
    /\ last.in[3].kind = "MetaField"
    /\ SegmentStart(last.in, 2) = 3
    /\ Len(Segment(last.out.body, last.in, 2)) >= 5
    /\ IsJoinedAppend(last.out.body[SegmentStart(last.in, 3) - 1],
                      FindBuilderOptions.variableForColumnExpr,
                      FindBuilderOptions.variableForColumnExpr \o <<"1">>)

(***************************************************************************)
(* C24: an empty field list is not an error for filter synthesis: it       *)
(* returns no statement, exactly one declaration, the option-shape under   *)
(* the given shape name with no fields, and one formal parameter of that   *)
(* shape.                                                                  *)
(***************************************************************************)
C24_EmptyFieldList ==
    (Done("BuildFindArgumentsProcessor") /\ last.in = <<>>) =>
        /\ last.out.status = "ok"
        /\ last.out.body = <<>>
        /\ DOMAIN last.out.declarations = {ShapeName}
        /\ last.out.declarations[ShapeName].Name = ShapeName
        /\ last.out.declarations[ShapeName].Fields = <<>>
        /\ Len(last.out.optionsFuncField) = 1
        /\ last.out.optionsFuncField[1].Names = <<CarrierName>>
        /\ last.out.optionsFuncField[1].Type = Ident(ShapeName)

C24_Witness ==
    /\ Done("BuildFindArgumentsProcessor")
    /\ last.in = <<>>
    /\ last.out.status = "ok"
    /\ last.out.body = <<>>
    /\ Cardinality(DOMAIN last.out.declarations) = 1

(***************************************************************************)
(* C25: guard selection of the write path.  The emission of a field stands *)
(* in at most one guard; an omitted field is never guarded; a non-omitted  *)
(* pointer-typed field gets the non-null guard, and that guard alone when  *)
(* it is of optional-wrapper kind too; a non-omitted optional-wrapper      *)
(* field that is no pointer gets the 'value supplied' guard; every other   *)
(* field is emitted unguarded.                                             *)
(***************************************************************************)
IsNonNullGuard(stmt, field) ==
    /\ IsGuard(stmt)
    /\ stmt.Cond = Binary(CarrierField(field), NilExpr, "!=")
IsSuppliedGuard(stmt, field) ==
    /\ IsGuard(stmt)
    /\ stmt.Cond.e = "UnaryExpr"
    /\ stmt.Cond.Op = "!"
    /\ stmt.Cond.X.e = "CallExpr"
    /\ stmt.Cond.X.Args = <<>>
    /\ stmt.Cond.X.Fun =
           Selector(CarrierField(field), <<"I", "s", "O", "m", "i", "t", "t", "e", "d">>)

C25_GuardSelection ==
    Completed("BuildInputValuesProcessor") =>
        /\ Len(last.out.functionBody) = Len(last.in)
        /\ \A i \in 1..Len(last.in) :
               LET stmt == last.out.functionBody[i]
                   field == last.in[i]
                   pointer == IsStarExpr(field.Field.Type)
               IN  /\ IsGuard(stmt) =>
                          \A k \in 1..Len(stmt.Body) : ~IsGuard(stmt.Body[k])
                   /\ IsOmitted(field) => ~IsGuard(stmt)
                   /\ (~IsOmitted(field) /\ pointer) => IsNonNullGuard(stmt, field)
                   /\ (~IsOmitted(field) /\ ~pointer /\ field.IsMaybeType) =>
                          IsSuppliedGuard(stmt, field)
                   /\ (~IsOmitted(field) /\ ~pointer /\ ~field.IsMaybeType) => ~IsGuard(stmt)

\* a pointer-typed optional-wrapper field, then a field without a guard
C25_Witness ==
    /\ Completed("BuildInputValuesProcessor")
    /\ Len(last.in) = 2
    /\ ~IsOmitted(last.in[1])
    /\ IsStarExpr(last.in[1].Field.Type)
    /\ last.in[1].IsMaybeType
    /\ IsNonNullGuard(last.out.functionBody[1], last.in[1])
    /\ ~IsGuard(last.out.functionBody[1].Body[1])
    /\ ~IsGuard(last.out.functionBody[2])

(***************************************************************************)
(* Concurrent registration: the calls that have finished, from regLog (a   *)
(* successful call is logged at its store, a failed one at its check).     *)
(***************************************************************************)
Returned == {g \in DOMAIN registering : registering[g].pc = "returned"}
Panicked == {g \in DOMAIN registering : registering[g].pc = "panicked"}
AllFinished == Returned \cup Panicked = DOMAIN registering
SuccessfulRegs == SelectSeq(regLog, LAMBDA r : r.outcome = "ok")

(***************************************************************************)
(* C26: under any interleaving of two or more concurrent                   *)
(* RegisterSqlFieldEncryptFunction calls, the nil-check and the store      *)
(* being separate steps, at most one call returns successfully, the hook   *)
(* finally holds that call's function, and every other call fails.         *)
(***************************************************************************)
C26_AtMostOneCallSucceeds ==
    /\ Cardinality(Returned) <= 1
    /\ AllFinished =>
           /\ \A g \in Returned : makeEncryptPasswordCallCustom = registering[g].fn
           /\ Cardinality(Panicked) >= Cardinality(DOMAIN registering) - 1

(***************************************************************************)
(* C26 as amended: under any interleaving the hook holds the function of   *)
(* the successful call that stored last; a call fails only if its          *)
(* nil-check came after the store of a function by another call; every     *)
(* call that makes its nil-check before any store returns successfully,    *)
(* so several calls can succeed.                                           *)
(***************************************************************************)
C26_LastStoreWins ==
    /\ Len(SuccessfulRegs) >= 1 =>
           makeEncryptPasswordCallCustom = SuccessfulRegs[Len(SuccessfulRegs)].fn
    /\ \A i \in 1..Len(regLog) :
           regLog[i].outcome = "panic" =>
               \E j \in 1..(i - 1) : regLog[j].outcome = "ok" /\ regLog[j].fn # Nil
    /\ (makeEncryptPasswordCallCustom = Nil /\ \A k \in 1..Len(regLog) : regLog[k].fn = Nil) =>
           Panicked = {}
    /\ AllFinished => Cardinality(Returned) >= 1

\* three calls with three functions: two pass the check before either stores
C26_Witness ==
    /\ AllFinished
    /\ Cardinality(DOMAIN registering) = 3
    /\ Cardinality(Returned) = 2
    /\ Cardinality(Panicked) = 1
    /\ Len(regLog) = 3
    /\ regLog[1].fn # Nil
    /\ regLog[2].fn # regLog[1].fn
    /\ regLog[2].outcome = "ok"
    /\ makeEncryptPasswordCallCustom = regLog[2].fn

(***************************************************************************)
(* C27: the option-shape of a level of the filter path holds one field per *)
(* leaf that is read from the caller (union, multi-value and ordinary      *)
(* leaves), no field for a constant-valued ordinary leaf, and one field    *)
(* per child Group, named after the Group's carrier variable and typed     *)
(* with the Group's option-shape name, all in input order.                 *)
(***************************************************************************)
IsConstantOrdinary(mf) ==
    /\ ~IsUnion(mf)
    /\ ~IsMultiValue(mf.CompareOperator)
    /\ mf.Constant # <<>>

\* the fields the elements from position i on stand for; body is the level's body
RECURSIVE FieldsExpected(_, _, _, _)
FieldsExpected(fields, body, shape, i) ==
    IF i > Len(fields) THEN <<>>
    ELSE (IF fields[i].kind = "MetaFields"
          THEN <<AstField(<<body[SegmentStart(fields, i)].Specs[1].Names[1]>>,
                          Ident(shape \o Itoa(i - 1)))>>
          ELSE IF IsConstantOrdinary(fields[i]) THEN <<>>
          ELSE <<fields[i].Field>>)
         \o FieldsExpected(fields, body, shape, i + 1)

C27_ShapeFields ==
    Completed("BuildFindArgumentsProcessor") =>
        /\ last.out.declarations[ShapeName].Fields
               = FieldsExpected(last.in, last.out.body, ShapeName, 1)
        /\ \A i \in 1..Len(last.in) :
               last.in[i].kind = "MetaFields" =>
                   LET seg == Segment(last.out.body, last.in, i)
                   IN  last.out.declarations[ShapeName \o Itoa(i - 1)].Fields
                           = FieldsExpected(last.in[i].items,
                                 SubSeq(seg, 2, Len(seg) - 1), ShapeName \o Itoa(i - 1), 1)

C27_Witness ==
    /\ Completed("BuildFindArgumentsProcessor")
    /\ Len(last.in) = 3
    /\ last.in[1] = LeafConst
    /\ last.in[2].kind = "MetaFields"
    /\ last.in[3] = LeafIn
    /\ Len(last.out.declarations[ShapeName].Fields) = 2
    /\ last.out.declarations[ShapeName].Fields[1].Type = Ident(ShapeName \o <<"1">>)
    /\ last.out.declarations[ShapeName].Fields[2] = LeafIn.Field

(***************************************************************************)
(* C28: two sibling Groups of one level always receive distinct carrier    *)
(* variable names and distinct field names in the parent's option-shape,   *)
(* whatever the names of their children: siblings with the same child      *)
(* names, child names that contain one another, empty Groups.              *)
(***************************************************************************)
NamesOfGroupFields(out, shape) ==
    [k \in 1..Len(GroupFields(out, shape)) |-> GroupFields(out, shape)[k].Names[1]]

C28_SiblingCarriersDistinct ==
    Completed("BuildFindArgumentsProcessor") =>
        /\ PairwiseDistinct(CarriersDeclared(last.out.body))
        /\ PairwiseDistinct(NamesOfGroupFields(last.out, ShapeName))

(***************************************************************************)
(* C29: every operator that passes validation has a template: the fixed    *)
(* operator list is a subset of the keys of the template table, so         *)
(* getBuilder never fails with 'cannot find template' and fails only on    *)
(* operators outside the fixed set; and the multi-value operators are      *)
(* exactly in and not-in.                                                  *)
(***************************************************************************)
C29_ValidatedOperatorHasTemplate ==
    /\ \A i \in 1..Len(compareOperators) : compareOperators[i] \in DOMAIN knownOperators
    /\ (Completed("Check")) => ~IsPanic(getBuilder(last.out.c))
    /\ Done("getBuilder") =>
           /\ last.out.status = "panic" =>
                  /\ last.out.msg = "unknown compare operator"
                  /\ last.in # ""
                  /\ ~InFixedSet(last.in)
           /\ IsMult(last.in) <=> last.in \in {CompareIn, CompareNotIn}

C29_Witness ==
    /\ Completed("getBuilder")
    /\ last.in = CompareNotIn
    /\ IsMult(last.in)
    /\ last.out.template = knownOperators[CompareNotIn]
    /\ ~IsMult(CompareIsNull)
    /\ ~IsPanic(getBuilder(CompareIsNull))

(***************************************************************************)
(* C30: BuildExecutionBlockForFunction with an empty list of destination   *)
(* references aborts with the argument-count error of the row-scan call    *)
(* (minimum one argument); with one or more references it always           *)
(* completes.                                                              *)
(***************************************************************************)
IsArgsCountError(out) ==
    /\ out.status = "panic"
    /\ out.msg = "the minimum number of arguments has not been reached"

C30_CompletesIffReferences ==
    Done("BuildExecutionBlockForFunction") =>
        IF Len(last.in.fieldRefs) = 0 THEN IsArgsCountError(last.out)
        ELSE last.out.status = "ok"

(***************************************************************************)
(* C30 as amended: when the scan wrapper and the wrappers of the SQL-text  *)
(* and argument sources are not nil, the block builder aborts with the     *)
(* argument-count error on an empty list of destination references and     *)
(* completes on one or more references; a nil source wrapper aborts it on  *)
(* the nil call before the references are looked at, a nil scan wrapper    *)
(* after the row-scan call has been built.                                 *)
(***************************************************************************)
NilSourceWrapper(options) ==
    \/ options.variableForSqlText.wrapper = Nil
    \/ options.variableForArguments.wrapper = Nil
IsNilCallError(out) ==
    /\ out.status = "panic"
    /\ out.msg = "invalid memory address or nil pointer dereference"

C30_CompletesIffReferencesAndWrappers ==
    Done("BuildExecutionBlockForFunction") =>
        IF NilSourceWrapper(last.in.options) THEN IsNilCallError(last.out)
        ELSE IF Len(last.in.fieldRefs) = 0 THEN IsArgsCountError(last.out)
        ELSE IF last.in.scanBlock = Nil THEN IsNilCallError(last.out)
        ELSE last.out.status = "ok"

C30_Witness ==
    /\ Done("BuildExecutionBlockForFunction")
    /\ Len(last.in.fieldRefs) = 0
    /\ last.in.scanBlock = WrapperFindAll
    /\ last.in.options.variableForSqlText.wrapper = "Star"
    /\ last.in.options.variableForArguments.wrapper = "Ref"
    /\ IsArgsCountError(last.out)

====
